---- MODULE Spec2Model ----
(***************************************************************************)
(* Model of the OpenWhisper meeting pipeline: the SQLite store             *)
(* (services/database.py), the storage layer (services/meeting_storage.py) *)
(* and the transcriber / controller (services/meeting_controller.py).      *)
(*                                                                         *)
(* The specifications share the variables of the store:                    *)
(*   Spec    the running program: controller thread, capture thread,       *)
(*           transcription worker threads, process crash and restart;      *)
(*   SpecDb  the DatabaseManager API driven directly by one client thread  *)
(*           (as src/tests/test_database.py does), statement by statement; *)
(*   SpecMig the opening of the store statement by statement, with its     *)
(*           migration steps, their failures and retried startups;         *)
(*   SpecIns the DatabaseManager API with save_insight and delete_meeting; *)
(*   SpecDel the same with add_meeting_chunk, for the cascade of a delete; *)
(*   SpecRec the archiving of complete recordings, one save at a time, and *)
(*           SpecRecPar with two saves at once;                            *)
(*   SpecSto MeetingStorage.start_meeting and add_chunk with audio data,   *)
(*           driven directly by one client thread;                         *)
(*   SpecTr  one MeetingTranscriber driven directly: start, feed_audio,    *)
(*           stop, its worker thread, with a backend and a callback that   *)
(*           record what they are called with;                             *)
(*   SpecTitle   the DatabaseManager API with update_meeting_title;        *)
(*   SpecJson    the store opened again and again next to the JSON files   *)
(*               of an earlier release, with imports that can fail;        *)
(*   SpecRef     the DatabaseManager API with chunks and insights for      *)
(*               meetings that exist and that do not, crashes, recovery;   *)
(*   SpecRestart one MeetingTranscriber started and stopped repeatedly,    *)
(*               with the threads a timed-out stop() leaves behind;        *)
(*   SpecShutdown one MeetingTranscriber with an unbounded capture thread  *)
(*               and a fairly scheduled worker, for its termination.       *)
(***************************************************************************)
EXTENDS Integers, Sequences, FiniteSets, TLC

----------------------------------------------------------------------------
(* Bounds of the model *)

MaxMeetings == 2        \* meeting ids (uuid4 values) handed out in one behaviour
MaxFeeds == 2           \* calls of feed_audio in one behaviour
QueueCap == 2           \* stands for MEETING_QUEUE_SIZE
MaxApiChunks == 2       \* add_meeting_chunk calls of the API client
MaxTrFeeds == 4         \* calls of feed_audio in one behaviour of SpecTr
MaxInsightSaves == 2    \* save_insight calls of the API client
MaxSaves == 3           \* save_complete_recording calls in one behaviour
MaxCap == 2             \* the largest max_recordings passed
MaxAddChunks == 3       \* MeetingStorage.add_chunk calls of SpecSto
MaxImportedRowid == 4   \* SpecJson: no open once so many chunks were imported

(* Program constants *)

SCHEMA_VERSION == 4
WHISPER_SAMPLE_RATE == 16000
MEETING_CHUNK_DURATION_SEC == 30

\* config.SAMPLE_RATE, the capture rate handed to MeetingTranscriber.start.
\* The config module fixes its value; the rate that needs no resampling is
\* taken here (the rate only scales buffer lengths into seconds).
SAMPLE_RATE == WHISPER_SAMPLE_RATE

----------------------------------------------------------------------------
(* Values *)

NULL == "NULL"          \* Python None / SQL NULL for text columns
NoId == 0               \* Python None where a meeting id is expected
NoStop == <<>>          \* stop() has not been called
NoFile == <<>>          \* Python None / SQL NULL where a file path is expected
Ids == 1..MaxMeetings
SP == " "
Timestamp == "T"        \* datetime.now().isoformat(): some non-null text

\* Sample buffers the capture callback delivers (their lengths): 10 s, below
\* the chunk window, and 30 s, a full window.
BufLens == {10 * SAMPLE_RATE, 30 * SAMPLE_RATE}

\* recorder.get_recording_duration() results
Durations == {40}

\* Texts are sequences of one-character strings.
\* What model.transcribe can return, an ordered sequence of segment texts:
\* no segment, a blank segment, one segment, a segment and a blank one.
EngineOutputs == {<<>>, <<<<SP>>>>, <<<<SP, "a">>>>, <<<<SP, "a">>, <<SP>>>>}

\* Texts and indices the API client passes to add_meeting_chunk.
ApiTexts == {<<>>, <<"a">>, <<"b">>, <<"a", SP>>}
ApiIndices == {0, 1}

\* What the API client passes to save_insight: the type with the custom
\* prompt (None, the empty string or a prompt; "only for 'custom' type"), and
\* the content. These are strings.
InsightKeys ==
    {<<"summary", NULL>>, <<"custom", NULL>>, <<"custom", "">>,
     <<"custom", "p">>}
InsightContents == {"x", "y"}

\* The titles passed to update_meeting_title.
Titles == {"New", "Original"}

\* The texts passed to MeetingStorage.add_chunk in SpecSto.
StoTexts == {<<"a">>, <<"b">>}

----------------------------------------------------------------------------
(* Python string operations *)

RECURSIVE lstrip(_)
lstrip(s) == IF s # <<>> /\ Head(s) = SP THEN lstrip(Tail(s)) ELSE s

RECURSIVE rstrip(_)
rstrip(s) ==
    IF s # <<>> /\ s[Len(s)] = SP THEN rstrip(SubSeq(s, 1, Len(s) - 1)) ELSE s

strip(s) == rstrip(lstrip(s))

\* " ".join(parts)
RECURSIVE join(_)
join(parts) ==
    IF parts = <<>> THEN <<>>
    ELSE IF Len(parts) = 1 THEN parts[1]
    ELSE parts[1] \o <<SP>> \o join(Tail(parts))

----------------------------------------------------------------------------
(* The store: schema and rows *)

\* Columns of CREATE TABLE IF NOT EXISTS meetings in SCHEMA_SQL.
SchemaMeetingsColumns ==
    {"id", "title", "start_time", "end_time", "duration_seconds",
     "transcript", "status"}

\* Columns of the meetings table of a store at schema version v >= 1.
LegacyMeetingsColumns(v) ==
    IF v < 2 THEN SchemaMeetingsColumns
    ELSE SchemaMeetingsColumns \cup {"audio_file"}

NoRow ==
    [status |-> "none", end_time |-> NULL, duration_seconds |-> 0,
     transcript |-> <<>>, title |-> ""]

\* The row INSERT INTO meetings (id, title, start_time, status) creates.
NewMeetingRow ==
    [status |-> "in_progress", end_time |-> NULL, duration_seconds |-> 0,
     transcript |-> <<>>, title |-> "Original"]

\* executescript(SCHEMA_SQL): creates the meetings table only when absent.
ExecuteSchemaSql(cols) == IF cols = {} THEN SchemaMeetingsColumns ELSE cols

\* _run_migrations, the part that touches the meetings table:
\* v1 -> v2 adds audio_file ("duplicate column name" is tolerated).
RunMigrations(cols, from_version) ==
    IF from_version < 2 THEN cols \cup {"audio_file"} ELSE cols

\* Columns of meeting_insights, with its timestamp column named ts.
InsightsColumns(ts) ==
    {"id", "meeting_id", "insight_type", "content", "custom_prompt", ts,
     "provider", "model"}

\* CREATE TABLE IF NOT EXISTS meeting_insights, of SCHEMA_SQL and of the
\* v2 -> v3 step.
CreateInsightsIfNotExists(icols) ==
    IF icols = {} THEN InsightsColumns("generated_at") ELSE icols

\* meeting_insights of a store at schema version v: none before version 3;
\* at version 3 with created_at or, as the v3 -> v4 step allows for, already
\* with generated_at; from version 4 with generated_at.
LegacyInsightsColumns(v) ==
    IF v < 3 THEN {{}}
    ELSE IF v < 4
    THEN {InsightsColumns("created_at"), InsightsColumns("generated_at")}
    ELSE {InsightsColumns("generated_at")}

\* The v3 -> v4 step: RENAME COLUMN created_at TO generated_at when
\* created_at is there and generated_at is not.
RenameCreatedAt(icols) ==
    IF "created_at" \in icols /\ "generated_at" \notin icols
    THEN (icols \ {"created_at"}) \cup {"generated_at"}
    ELSE icols

\* _run_migrations, the part that touches meeting_insights.
RunMigrationsInsights(icols, from_version) ==
    LET v3 == IF from_version < 3 THEN CreateInsightsIfNotExists(icols)
              ELSE icols
    IN  IF from_version < 4 THEN RenameCreatedAt(v3) ELSE v3

\* if from_version < step
StepApplies_always(from_version, step) == TRUE

StepApplies(from_version, step) == from_version < step

\* What a statement of a migration step answers: "ok", or the message of the
\* sqlite3.OperationalError it raises. ALTER TABLE ... ADD COLUMN answers
\* "duplicate column name" when the column is there.
AlterAddColumn(cols, col) ==
    IF col \in cols THEN "duplicate column name" ELSE "ok"

\* OperationalErrors that have nothing to do with the schema.
Faults == {"disk I/O error"}

\* The except clauses of the three steps: which messages are re-raised.
StepV2Raises_strict(message) == message # "ok"

StepV2Raises(message) ==
    message # "ok" /\ message # "duplicate column name"

StepV3Raises(message) == message # "ok" /\ message # "already exists"

StepV4Raises(message) == message # "ok"

\* _init_database: meeting_insights after a successful open.
InitDatabaseInsights(icols, version) ==
    IF version # 0 /\ version < SCHEMA_VERSION
    THEN RunMigrationsInsights(CreateInsightsIfNotExists(icols), version)
    ELSE CreateInsightsIfNotExists(icols)

\* _init_database: the columns and the stored version after a successful open.
\* version 0 stands for "schema_version has no row".
InitDatabaseColumns(cols, version) ==
    IF version = 0 THEN ExecuteSchemaSql(cols)
    ELSE IF version < SCHEMA_VERSION
         THEN RunMigrations(ExecuteSchemaSql(cols), version)
         ELSE ExecuteSchemaSql(cols)

\* The stored version after an open that writes the target whatever it finds.
InitDatabaseVersion_reset(version) == SCHEMA_VERSION

InitDatabaseVersion(version) ==
    IF version = 0 \/ version < SCHEMA_VERSION THEN SCHEMA_VERSION ELSE version

\* new_transcript in add_meeting_chunk
ExtendTranscript_nosep(current_transcript, text) ==
    IF current_transcript # <<>> THEN strip(current_transcript \o text)
    ELSE text

ExtendTranscript(current_transcript, text) ==
    IF current_transcript # <<>>
    THEN strip(current_transcript \o <<SP>> \o text)
    ELSE text

\* INSERT INTO meeting_chunks: the row, with its AUTOINCREMENT id.
InsertChunk(ch, rowid, m, chunk_index, text, audio_file) ==
    Append(ch, [id |-> rowid, meeting_id |-> m, chunk_index |-> chunk_index,
                text |-> text, audio_file |-> audio_file])

\* SELECT transcript ... ; if row: UPDATE meetings SET transcript = ...
UpdateTranscript(mt, m, text) ==
    IF mt[m].status # "none"
    THEN [mt EXCEPT ![m].transcript = ExtendTranscript(@, text)]
    ELSE mt

\* _save_audio_chunk: the relative path meeting_id[:8]/chunk_NNNN.wav when the
\* file was written, None when makedirs, open or write raised.
SaveAudioChunk_path(written, m, chunk_index) == <<m, chunk_index>>

SaveAudioChunk(written, m, chunk_index) ==
    IF written THEN <<m, chunk_index>> ELSE NoFile

\* UPDATE meetings SET title = ? WHERE id = ?
UpdateMeetingTitle_nowhere(mt, m, title) ==
    [n \in Ids |->
        IF mt[n].status # "none" THEN [mt[n] EXCEPT !.title = title]
        ELSE mt[n]]

UpdateMeetingTitle(mt, m, title) ==
    IF mt[m].status # "none" THEN [mt EXCEPT ![m].title = title] ELSE mt

\* The INSERT on a connection without PRAGMA foreign_keys = ON: only the
\* NOT NULL constraint is checked.
InsertChunkFails_nopragma(mt, m) == m = NoId

\* The INSERT fails with an IntegrityError when meeting_id is NULL (NOT NULL)
\* or names no meetings row (PRAGMA foreign_keys = ON).
InsertChunkFails(mt, m) == m = NoId \/ mt[m].status = "none"

\* COALESCE(custom_prompt, '')
Coalesce(custom_prompt) == IF custom_prompt = NULL THEN "" ELSE custom_prompt

\* The key of the SELECT of save_insight with custom_prompt compared as given.
SameInsightKey_exact(row, m, insight_type, custom_prompt) ==
    /\ row.meeting_id = m
    /\ row.insight_type = insight_type
    /\ row.custom_prompt = custom_prompt

\* WHERE meeting_id = ? AND insight_type = ?
\*   AND COALESCE(custom_prompt, '') = COALESCE(?, '')
SameInsightKey(row, m, insight_type, custom_prompt) ==
    /\ row.meeting_id = m
    /\ row.insight_type = insight_type
    /\ Coalesce(row.custom_prompt) = Coalesce(custom_prompt)

\* save_insight: SELECT id ... ; existing = cursor.fetchone(): the position of
\* the first matching row, 0 when there is none.
ExistingInsight(rows, m, insight_type, custom_prompt) ==
    LET found == {i \in DOMAIN rows :
                     SameInsightKey(rows[i], m, insight_type, custom_prompt)}
    IN  IF found = {} THEN 0 ELSE CHOOSE i \in found : \A j \in found : i <= j

\* UPDATE meeting_insights SET content = ?, ... WHERE id = ?
UpdateInsight(rows, existing, content) ==
    [rows EXCEPT ![existing].content = content]

\* INSERT INTO meeting_insights (...): the row, with its AUTOINCREMENT id.
InsertInsight(rows, rowid, m, insight_type, content, custom_prompt) ==
    Append(rows, [id |-> rowid, meeting_id |-> m,
                  insight_type |-> insight_type, content |-> content,
                  custom_prompt |-> custom_prompt])

\* DELETE FROM meetings WHERE id = ? on a connection without
\* PRAGMA foreign_keys = ON: the rows that reference the meeting stay.
CascadeDelete_off(rows, m) == rows

\* ON DELETE CASCADE of meeting_chunks and meeting_insights: the rows that
\* reference meeting m go with it.
CascadeDelete(rows, m) == SelectSeq(rows, LAMBDA r : r.meeting_id # m)

\* What other connections (and a reopened store) see after a statement that
\* wrote inside the connection's implicit transaction: the committed state.
CommittedAfterWrite_autocommit(committed, working) == working

CommittedAfterWrite(committed, working) == committed

\* UPDATE meetings SET end_time, duration_seconds, status = 'completed',
\* audio_file WHERE id = ?  -- needs the audio_file column.
EndMeetingFails(cols) == "audio_file" \notin cols

EndMeetingRow(mt, m, duration) ==
    IF m # NoId /\ mt[m].status # "none"
    THEN [mt EXCEPT ![m].end_time = Timestamp,
                    ![m].duration_seconds = duration,
                    ![m].status = "completed"]
    ELSE mt

\* UPDATE meetings SET end_time, duration_seconds, status = 'interrupted'
MarkMeetingInterrupted_reset(mt, m, duration) ==
    IF mt[m].status # "none"
    THEN [mt EXCEPT ![m].end_time = Timestamp,
                    ![m].duration_seconds = 0,
                    ![m].status = "interrupted"]
    ELSE mt

MarkMeetingInterrupted(mt, m, duration) ==
    IF mt[m].status # "none"
    THEN [mt EXCEPT ![m].end_time = Timestamp,
                    ![m].duration_seconds = duration,
                    ![m].status = "interrupted"]
    ELSE mt

\* SELECT * FROM meetings WHERE status = 'in_progress'
GetInProgressMeetings(mt) == {m \in Ids : mt[m].status = "in_progress"}

\* SELECT COUNT(*) FROM meeting_chunks WHERE meeting_id = ?
GetMeetingChunkCount(ch, m) ==
    Cardinality({i \in DOMAIN ch : ch[i].meeting_id = m})

\* get_meeting: SELECT * FROM meeting_chunks WHERE meeting_id = ?
\*              ORDER BY chunk_index   (ties in rowid order)
ChunksByIndex(ch, m) ==
    SortSeq(SelectSeq(ch, LAMBDA r : r.meeting_id = m),
            LAMBDA a, b : a.chunk_index < b.chunk_index
                          \/ (a.chunk_index = b.chunk_index /\ a.id < b.id))

\* _check_interrupted_meetings: every in_progress row is marked interrupted,
\* with the duration the row already holds.
CheckInterruptedMeetings_all(mt) ==
    [m \in Ids |-> MarkMeetingInterrupted(mt, m, mt[m].duration_seconds)[m]]

CheckInterruptedMeetings(mt) ==
    [m \in Ids |->
        IF m \in GetInProgressMeetings(mt)
        THEN MarkMeetingInterrupted(mt, m, mt[m].duration_seconds)[m]
        ELSE mt[m]]

\* meetings.json of the releases that stored meetings as JSON: absent (or with
\* no meetings), or holding one meeting that was being recorded.
JsonMeetingsFiles ==
    {<<>>,
     <<[id |-> 1, status |-> "in_progress", end_time |-> NULL,
        duration_seconds |-> 40, transcript |-> <<>>, title |-> "Imported",
        chunks |-> <<>>]>>}

\* meetings.json as test_meetings_migration writes it: a completed meeting
\* with two chunks.
JsonMeetingsWithChunks ==
    {<<[id |-> 1, status |-> "completed", end_time |-> Timestamp,
        duration_seconds |-> 40, transcript |-> <<"a", SP, "b">>,
        title |-> "Imported",
        chunks |-> <<[index |-> 0, text |-> <<"a">>],
                     [index |-> 1, text |-> <<"b">>]>>]>>}

\* transcription_history.json: absent (or with no entries), or the two
\* entries test_history_migration writes.
JsonHistoryFiles ==
    {<<>>, <<[id |-> "h1", text |-> "one"], [id |-> "h2", text |-> "two"]>>}

\* No transcription_history.json, and no backup of either file.
NoJsonFiles == [history |-> <<>>, history_bak |-> <<>>, meetings_bak |-> <<>>]

\* How _migrate_history_from_json or _migrate_meetings_from_json ends:
\* imported: committed and the file renamed; raised: an exception before the
\* commit (rolled back, logged); rename_failed: committed, os.rename raised.
ImportOutcomes == {"imported", "raised", "rename_failed"}

\* _migrate_from_json: the file is imported when the meetings table is empty.
MigratesMeetings_exists(mt, file) == file # <<>>

MigratesMeetings(mt, file) ==
    file # <<>> /\ \A m \in Ids : mt[m].status = "none"

\* _migrate_from_json: ... when transcription_history is empty.
MigratesHistory(table, file) == file # <<>> /\ table = {}

\* The meetings row of a meeting of the file.
JsonMeetingRow(meeting) ==
    [status |-> meeting.status, end_time |-> meeting.end_time,
     duration_seconds |-> meeting.duration_seconds,
     transcript |-> meeting.transcript, title |-> meeting.title]

\* _migrate_meetings_from_json: INSERT OR IGNORE each meeting under its own
\* id.
RECURSIVE MigrateMeetingsFromJson(_, _)
MigrateMeetingsFromJson(mt, file) ==
    IF file = <<>> THEN mt
    ELSE MigrateMeetingsFromJson(
             IF mt[Head(file).id].status = "none"
             THEN [mt EXCEPT ![Head(file).id] = JsonMeetingRow(Head(file))]
             ELSE mt,
             Tail(file))

\* The chunks of the file's meetings, in the order of their INSERTs.
RECURSIVE JsonChunks(_)
JsonChunks(file) ==
    IF file = <<>> THEN <<>>
    ELSE [k \in 1..Len(Head(file).chunks) |->
             [meeting_id |-> Head(file).id,
              chunk_index |-> Head(file).chunks[k].index,
              text |-> Head(file).chunks[k].text]]
         \o JsonChunks(Tail(file))

\* _migrate_meetings_from_json: INSERT INTO meeting_chunks for every chunk.
MigrateChunksFromJson(ch, rowid, file) ==
    ch \o [k \in 1..Len(JsonChunks(file)) |->
              [id |-> rowid + k,
               meeting_id |-> JsonChunks(file)[k].meeting_id,
               chunk_index |-> JsonChunks(file)[k].chunk_index,
               text |-> JsonChunks(file)[k].text,
               audio_file |-> NoFile]]

\* _migrate_history_from_json: INSERT OR IGNORE each entry under its id.
RECURSIVE MigrateHistoryFromJson(_, _)
MigrateHistoryFromJson(table, entries) ==
    IF entries = <<>> THEN table
    ELSE MigrateHistoryFromJson(
             IF \E row \in table : row.id = Head(entries).id THEN table
             ELSE table \cup {Head(entries)},
             Tail(entries))

\* The first uuid4 value that is none of the file's ids.
RECURSIVE AfterJsonIds(_, _)
AfterJsonIds(next, file) ==
    IF file = <<>> THEN next
    ELSE AfterJsonIds(IF Head(file).id >= next THEN Head(file).id + 1
                      ELSE next, Tail(file))

----------------------------------------------------------------------------
(* The recordings folder *)

\* Values of the max_recordings argument (an int, or the stored setting).
MaxRecordingsValues == 0..MaxCap

\* The file save_complete_recording writes at second ts for meeting m:
\* meeting_{timestamp}_{id[:8]}.wav, modified at ts.
RecordingFile(ts, m) ==
    [prefix |-> "meeting_", ts |-> ts, id |-> m, mtime |-> ts]

\* A file in the folder that is not a recording, older than any recording.
OtherFile == [prefix |-> "notes_", ts |-> 0, id |-> NoId, mtime |-> 0]

\* filename.startswith('meeting_') and filename.endswith('.wav')
IsRecording(file) == file.prefix = "meeting_"

\* _rotate_recordings: the names os.listdir answers that pass the filter.
ListRecordings(folder) == {file \in folder : IsRecording(file)}

\* recordings.sort(key=lambda x: x[1]): the listed files oldest first; files
\* of equal modification time in the order os.listdir gave them (any order).
SortedByMtime(files) ==
    {recordings \in [1..Cardinality(files) -> files] :
        /\ \A i, j \in DOMAIN recordings :
              i < j => /\ recordings[i] # recordings[j]
                       /\ recordings[i].mtime <= recordings[j].mtime}

----------------------------------------------------------------------------
(* The transcriber: pure parts *)

\* accumulated_duration: the sum of len(audio_chunk) / self.sample_rate over
\* the accumulated buffers (buffers hold whole seconds of samples).
RECURSIVE AccumulatedDuration(_)
AccumulatedDuration(acc) ==
    IF acc = <<>> THEN 0
    ELSE (Head(acc) \div SAMPLE_RATE) + AccumulatedDuration(Tail(acc))

\* feed_audio with a blocking-free but unbounded queue.
FeedAudio_unbounded(t, audio_chunk) ==
    IF ~t.is_running THEN t.audio_queue
    ELSE Append(t.audio_queue, audio_chunk)

\* feed_audio without its test of is_running.
FeedAudio_stopped(t, audio_chunk) ==
    IF Len(t.audio_queue) >= QueueCap THEN t.audio_queue
    ELSE Append(t.audio_queue, audio_chunk)

\* feed_audio: the queue after the call.
FeedAudio(t, audio_chunk) ==
    IF ~t.is_running THEN t.audio_queue
    ELSE IF Len(t.audio_queue) >= QueueCap THEN t.audio_queue
    ELSE Append(t.audio_queue, audio_chunk)

\* if accumulated_duration >= self.chunk_duration_sec
WindowReached_exceeded(accumulated_duration) ==
    accumulated_duration > MEETING_CHUNK_DURATION_SEC

WindowReached(accumulated_duration) ==
    accumulated_duration >= MEETING_CHUNK_DURATION_SEC

\* while not self._stop_requested or not self.audio_queue.empty()
WorkerLoopCondition(t) == ~t.stop_requested \/ t.audio_queue # <<>>

\* len(np.concatenate(audio_chunks)): the samples of the buffers, one after
\* the other.
RECURSIVE ConcatenatedLen(_)
ConcatenatedLen(audio_chunks) ==
    IF audio_chunks = <<>> THEN 0
    ELSE Head(audio_chunks) + ConcatenatedLen(Tail(audio_chunks))

\* chunk_text = " ".join(text_parts).strip()
ChunkText_nostrip(text_parts) == join(text_parts)

ChunkText(text_parts) == strip(join(text_parts))

----------------------------------------------------------------------------
(* State *)

VARIABLES
    \* the files (they survive a crash)
    schema_version,      \* the row of schema_version; 0: no row
    meetings_columns,    \* columns of the meetings table; {}: no table
    insights_columns,    \* columns of meeting_insights; {}: no table
    meetings,            \* meetings rows by id; status "none": no row
    meeting_chunks,      \* meeting_chunks rows in rowid order
    chunk_rowid,         \* sqlite_sequence of meeting_chunks (AUTOINCREMENT)
    next_uuid,           \* the next unused uuid4 value
    meetings_file,       \* the meetings of meetings.json; <<>>: no file
    \* the API client's thread-local connection (SpecDb)
    txn,                 \* its open implicit transaction
    api_chunks,          \* add_meeting_chunk calls made so far
    \* the process
    up,                  \* "down", "db": db constructed, "ready": and
                         \* meeting_storage constructed; "unit": SpecTr
    backend,             \* MeetingController.backend is not None
    is_recording,        \* MeetingController.is_recording
    current_meeting,     \* MeetingController._current_meeting (its id)
    transcriber,         \* MeetingController.transcriber (which object)
    recorder,            \* MeetingController.recorder (which object)
    ctl,                 \* the controller thread: position, locals, result
    current_meeting_id,  \* MeetingStorage._current_meeting_id
    tr,                  \* the MeetingTranscriber objects and their threads
    rec,                 \* the AudioRecorder objects
    feeds,               \* feed_audio calls made so far
    \* the test doubles of SpecTr
    observed,            \* what the recording backend and callback have seen
    \* the thread inside DatabaseManager._init_database (SpecMig)
    mig,                 \* its position, from_version, the steps it ran
    \* the insights of the store (SpecIns)
    meeting_insights,    \* meeting_insights rows in rowid order
    insight_rowid,       \* sqlite_sequence of meeting_insights
    insight_saves,       \* save_insight calls made so far: the arguments
                         \* and the id returned (0: the call raised)
    \* the recordings folder and the threads saving to it (SpecRec)
    recordings_folder,   \* the files of MeetingStorage.recordings_folder
    now,                 \* the clock, in seconds
    savers,              \* the threads inside save_complete_recording
    saves,               \* max_recordings of the calls made so far
    \* the audio folder and the client of MeetingStorage.add_chunk (SpecSto)
    audio_folder,        \* the chunk files under MeetingStorage.audio_folder
    add_chunks,          \* add_chunk calls made so far
    \* the history table and the JSON files next to the store (SpecJson)
    transcription_history,  \* the rows of transcription_history
    json_files           \* transcription_history.json (<<>>: no file) and the
                         \* .bak files of it and of meetings.json

schema == <<schema_version, meetings_columns, insights_columns>>
disk == <<schema, meetings, meeting_chunks,
          chunk_rowid, next_uuid, meetings_file>>
client == <<txn, api_chunks>>
process == <<backend, is_recording, current_meeting, transcriber, recorder,
             ctl, current_meeting_id, tr, rec>>
insights == <<meeting_insights, insight_rowid, insight_saves>>
archiver == <<recordings_folder, now, savers, saves>>
audio == <<audio_folder, add_chunks>>
legacy == <<transcription_history, json_files>>
vars == <<disk, client, up, process, feeds, observed, mig, insights,
          archiver, audio, legacy>>

\* No thread is inside _init_database. message: what the last statement of
\* a migration step answered; applied: the steps whose block was entered.
MigClosed ==
    [pc |-> "closed", from_version |-> 0, applied |-> <<>>, message |-> "none"]

\* The threads that call save_complete_recording.
Savers == {1, 2}

\* A thread outside save_complete_recording: the locals of its last call
\* (listed: what os.listdir answered; recordings: the sorted list) and what
\* the call returned.
SaverIdle ==
    [pc |-> "idle", meeting_id |-> NoId, max_recordings |-> 0,
     listed |-> {}, recordings |-> <<>>, ret |-> "none"]

\* No implicit transaction is open on the connection.
NoTxn == [stage |-> "none", meetings |-> <<>>, meeting_chunks |-> <<>>]

\* MeetingTranscriber.__init__, and the locals of a worker not yet started.
\* timed_out records the warning "worker did not finish in time" of stop().
NewTranscriber ==
    [is_running |-> FALSE, stop_requested |-> FALSE, timed_out |-> FALSE,
     audio_queue |-> <<>>, pc |-> "none", accumulated_audio |-> <<>>,
     site |-> "none", segments |-> <<>>, text_parts |-> <<>>,
     chunk_text |-> <<>>, chunk_index |-> 0]

\* The controller thread between two calls: the last call and what it
\* returned (meeting_id: the id of the MeetingEntry returned).
CtlIdle ==
    [pc |-> "idle", call |-> "none", ret |-> "none", meeting_id |-> NoId,
     duration |-> 0]

CtlReturn(call, ret, meeting_id) ==
    [CtlIdle EXCEPT !.call = call, !.ret = ret, !.meeting_id = meeting_id]

\* The test doubles before any call: accepted: buffers feed_audio has queued;
\* dropped: buffers it has discarded; engine_calls: the calls of
\* model.transcribe; emitted: the texts on_chunk_transcribed was called with;
\* stop_after: <<n>> when stop() was called after n accepted buffers (NoStop:
\* not called).
NothingObserved ==
    [accepted |-> <<>>, dropped |-> 0, engine_calls |-> <<>>,
     emitted |-> <<>>, stop_after |-> NoStop]

\* Before the first start of the program, with the database file at one of
\* the given schema versions (0: no file); possibly a meetings.json.
InitOf(versions, meetings_files, history_files) ==
    /\ \E v \in versions :
          /\ schema_version = v
          /\ meetings_columns = IF v = 0 THEN {} ELSE LegacyMeetingsColumns(v)
          /\ insights_columns \in LegacyInsightsColumns(v)
    /\ meetings = [m \in Ids |-> NoRow]
    /\ meeting_chunks = <<>>
    /\ chunk_rowid = 0
    /\ next_uuid = 1
    /\ meetings_file \in meetings_files
    /\ txn = NoTxn
    /\ api_chunks = 0
    /\ up = "down"
    /\ backend = FALSE
    /\ is_recording = FALSE
    /\ current_meeting = NoId
    /\ transcriber = NoId
    /\ recorder = NoId
    /\ ctl = CtlIdle
    /\ current_meeting_id = NoId
    /\ tr = [m \in Ids |-> NewTranscriber]
    /\ rec = [m \in Ids |-> "none"]
    /\ feeds = 0
    /\ observed = NothingObserved
    /\ mig = MigClosed
    /\ meeting_insights = <<>>
    /\ insight_rowid = 0
    /\ insight_saves = <<>>
    /\ recordings_folder = {}
    /\ now = 0
    /\ savers = [s \in Savers |-> SaverIdle]
    /\ saves = <<>>
    /\ audio_folder = {}
    /\ add_chunks = <<>>
    /\ transcription_history = {}
    /\ \E file \in history_files :
          json_files = [NoJsonFiles EXCEPT !.history = file]

\* A store at one of the versions, with or without a meetings.json that
\* holds a meeting without chunks, and no transcription_history.json.
InitAt(versions) == InitOf(versions, JsonMeetingsFiles, {<<>>})

\* No database file, or the file an earlier release left at schema version
\* 1, 2 or 3.
Init == InitAt(0..(SCHEMA_VERSION - 1))

----------------------------------------------------------------------------
(* Start and end of the process *)

\* _migrate_from_json: the history file, then the meetings file; each import
\* ends in one of the outcomes.
MigrateFromJsonOf(outcomes) ==
    \E history_outcome \in outcomes, meetings_outcome \in outcomes :
       LET history == MigratesHistory(transcription_history,
                                      json_files.history)
                      /\ history_outcome # "raised"
           history_renamed == history /\ history_outcome = "imported"
           mtgs == MigratesMeetings(meetings, meetings_file)
                   /\ meetings_outcome # "raised"
           mtgs_renamed == mtgs /\ meetings_outcome = "imported"
       IN  /\ transcription_history' =
                 IF history
                 THEN MigrateHistoryFromJson(transcription_history,
                                             json_files.history)
                 ELSE transcription_history
           /\ meetings' = IF mtgs
                          THEN MigrateMeetingsFromJson(meetings, meetings_file)
                          ELSE meetings
           /\ meeting_chunks' =
                 IF mtgs
                 THEN MigrateChunksFromJson(meeting_chunks, chunk_rowid,
                                            meetings_file)
                 ELSE meeting_chunks
           /\ chunk_rowid' = IF mtgs
                             THEN chunk_rowid + Len(JsonChunks(meetings_file))
                             ELSE chunk_rowid
           /\ next_uuid' = IF mtgs THEN AfterJsonIds(next_uuid, meetings_file)
                           ELSE next_uuid
           /\ meetings_file' = IF mtgs_renamed THEN <<>> ELSE meetings_file
           /\ json_files' =
                 [json_files EXCEPT
                    !.history = IF history_renamed THEN <<>> ELSE @,
                    !.history_bak = IF history_renamed
                                    THEN json_files.history ELSE @,
                    !.meetings_bak = IF mtgs_renamed
                                     THEN meetings_file ELSE @]

\* The same when no import raises.
MigrateFromJson == MigrateFromJsonOf({"imported"})

\* DatabaseManager.__init__: _init_database, then _migrate_from_json.
DbOpenOf(outcomes) ==
    /\ up = "down"
    /\ up' = "db"
    /\ meetings_columns' = InitDatabaseColumns(meetings_columns, schema_version)
    /\ insights_columns' = InitDatabaseInsights(insights_columns, schema_version)
    /\ schema_version' = InitDatabaseVersion(schema_version)
    /\ MigrateFromJsonOf(outcomes)
    /\ UNCHANGED <<client, process, feeds, observed, mig>>
    /\ UNCHANGED <<insights, archiver, audio>>

DbOpen == DbOpenOf({"imported"})

\* The process dies (or is closed): memory is lost, threads end, an open
\* transaction is never committed.
Crash ==
    /\ up # "down"
    /\ up' = "down"
    /\ txn' = NoTxn
    /\ backend' = FALSE
    /\ is_recording' = FALSE
    /\ current_meeting' = NoId
    /\ transcriber' = NoId
    /\ recorder' = NoId
    /\ ctl' = CtlIdle
    /\ current_meeting_id' = NoId
    /\ tr' = [m \in Ids |-> NewTranscriber]
    /\ rec' = [m \in Ids |-> "none"]
    /\ UNCHANGED <<disk, api_chunks, feeds, observed, mig>>
    /\ UNCHANGED <<insights, archiver, audio, legacy>>

----------------------------------------------------------------------------
(* SpecDb: the DatabaseManager API, called by one client thread *)

\* create_meeting(uuid4, title, start_time)
DbCreateMeeting ==
    /\ up = "db" /\ txn.stage = "none"
    /\ next_uuid <= MaxMeetings
    /\ meetings' = [meetings EXCEPT ![next_uuid] = NewMeetingRow]
    /\ next_uuid' = next_uuid + 1
    /\ UNCHANGED <<schema, meeting_chunks,
                   chunk_rowid, meetings_file, client, up, process, feeds,
                   observed, mig>>
    /\ UNCHANGED <<insights, archiver, audio, legacy>>

\* add_meeting_chunk, first statement: INSERT INTO meeting_chunks. It opens
\* the implicit transaction; an IntegrityError rolls back and is raised.
DbAddChunkInsertOf(indices, texts) ==
    /\ up = "db" /\ txn.stage = "none"
    /\ api_chunks < MaxApiChunks
    /\ api_chunks' = api_chunks + 1
    /\ \E m \in Ids, i \in indices, text \in texts :
          IF InsertChunkFails(meetings, m)
          THEN UNCHANGED <<txn, meeting_chunks, chunk_rowid>>
          ELSE LET working ==
                       InsertChunk(meeting_chunks, chunk_rowid + 1, m, i, text,
                                   NoFile)
               IN  /\ txn' = [stage |-> "inserted",
                              meetings |-> UpdateTranscript(meetings, m, text),
                              meeting_chunks |-> working]
                   /\ meeting_chunks' =
                          CommittedAfterWrite(meeting_chunks, working)
                   /\ UNCHANGED chunk_rowid
    /\ UNCHANGED <<schema, meetings, next_uuid,
                   meetings_file, up, process, feeds, observed, mig>>
    /\ UNCHANGED <<insights, archiver, audio, legacy>>

DbAddChunkInsert == DbAddChunkInsertOf(ApiIndices, ApiTexts)

\* add_meeting_chunk, second part: SELECT transcript, UPDATE meetings.
DbAddChunkUpdate ==
    /\ up = "db" /\ txn.stage = "inserted"
    /\ txn' = [txn EXCEPT !.stage = "updated"]
    /\ meetings' = CommittedAfterWrite(meetings, txn.meetings)
    /\ UNCHANGED <<schema, meeting_chunks,
                   chunk_rowid, next_uuid, meetings_file, api_chunks, up,
                   process, feeds, observed, mig>>
    /\ UNCHANGED <<insights, archiver, audio, legacy>>

\* add_meeting_chunk, conn.commit(): the rows and the AUTOINCREMENT sequence
\* the transaction wrote become the committed state.
DbAddChunkCommit ==
    /\ up = "db" /\ txn.stage = "updated"
    /\ meetings' = txn.meetings
    /\ meeting_chunks' = txn.meeting_chunks
    /\ chunk_rowid' = chunk_rowid + 1
    /\ txn' = NoTxn
    /\ UNCHANGED <<schema, next_uuid, meetings_file,
                   api_chunks, up, process, feeds, observed, mig>>
    /\ UNCHANGED <<insights, archiver, audio, legacy>>

\* A statement of add_meeting_chunk raises (disk full, database locked, ...):
\* _get_connection rolls the transaction back and re-raises.
DbAddChunkError ==
    /\ up = "db" /\ txn.stage \in {"inserted", "updated"}
    /\ txn' = NoTxn
    /\ UNCHANGED <<disk, api_chunks, up, process, feeds, observed, mig>>
    /\ UNCHANGED <<insights, archiver, audio, legacy>>

\* end_meeting(meeting_id, end_time, duration_seconds): an OperationalError
\* (no such column) is rolled back and raised.
DbEndMeeting ==
    /\ up = "db" /\ txn.stage = "none"
    /\ \E m \in Ids, d \in Durations :
          meetings' = IF EndMeetingFails(meetings_columns) THEN meetings
                      ELSE EndMeetingRow(meetings, m, d)
    /\ UNCHANGED <<schema, meeting_chunks,
                   chunk_rowid, next_uuid, meetings_file, client, up, process,
                   feeds, observed, mig>>
    /\ UNCHANGED <<insights, archiver, audio, legacy>>

NextDb ==
    \/ DbOpen
    \/ DbCreateMeeting
    \/ DbAddChunkInsert
    \/ DbAddChunkUpdate
    \/ DbAddChunkCommit
    \/ DbAddChunkError
    \/ DbEndMeeting
    \/ Crash

SpecDb == Init /\ [][NextDb]_vars

----------------------------------------------------------------------------
(* Spec: the running program *)

\* MeetingStorage.__init__ (the module-level meeting_storage singleton).
StorageInit ==
    /\ up = "db"
    /\ up' = "ready"
    /\ meetings' = CheckInterruptedMeetings(meetings)
    /\ UNCHANGED <<schema, meeting_chunks,
                   chunk_rowid, next_uuid, meetings_file, client, process,
                   feeds, observed, mig>>
    /\ UNCHANGED <<insights, archiver, audio, legacy>>

\* MeetingController.set_backend
SetBackend ==
    /\ up = "ready" /\ ~backend
    /\ backend' = TRUE
    /\ UNCHANGED <<disk, client, up, is_recording, current_meeting,
                   transcriber, recorder, ctl, current_meeting_id, tr, rec,
                   feeds, observed, mig>>
    /\ UNCHANGED <<insights, archiver, audio, legacy>>

\* Where the try block of start_meeting can be left by an exception.
\* "transcriber_start": worker_thread.start() raises inside transcriber.start,
\* after is_running = True.
StartFailures ==
    {"none", "create_meeting", "AudioRecorder", "start_recording",
     "transcriber_start"}

\* cleanup without its stop(): only the queue is emptied.
TranscriberCleanup_nostop(trs, t) ==
    IF t = NoId THEN trs ELSE [trs EXCEPT ![t].audio_queue = <<>>]

\* MeetingTranscriber.cleanup on object t (None: not called): stop(), then the
\* queue is emptied. Where cleanup is called the worker thread is either not
\* alive or the transcriber is already stopped, so stop() does not wait: it
\* returns at once when not running, else sets the flags.
TranscriberCleanup(trs, t) ==
    IF t = NoId THEN trs
    ELSE [trs EXCEPT ![t].stop_requested = @ \/ trs[t].is_running,
                     ![t].is_running = FALSE,
                     ![t].audio_queue = <<>>]

\* AudioRecorder.cleanup on object r (None: not called).
RecorderCleanup(recs, r) ==
    IF r = NoId THEN recs ELSE [recs EXCEPT ![r] = "cleaned"]

\* MeetingTranscriber.start on a new object: the worker thread is started.
TranscriberStart(t) ==
    [t EXCEPT !.is_running = TRUE, !.stop_requested = FALSE, !.pc = "loop"]

\* start_meeting returns False before its try block: a meeting is already
\* in progress, or there is no backend.
StartMeetingRefused_active(recording, has_backend) == recording

StartMeetingRefused(recording, has_backend) == recording \/ ~has_backend

\* MeetingController.start_meeting, with meeting_storage.start_meeting and,
\* when the try block fails, _cleanup_failed_start.
StartMeeting ==
    /\ up = "ready" /\ ctl.pc = "idle"
    /\ IF StartMeetingRefused(is_recording, backend)
       THEN /\ ctl' = CtlReturn("start_meeting", "False", NoId)
            /\ UNCHANGED <<disk, backend, is_recording, current_meeting,
                           transcriber, recorder, current_meeting_id, tr, rec>>
       ELSE /\ next_uuid <= MaxMeetings
            /\ \E fail \in StartFailures :
                 LET m == next_uuid
                     created == fail # "create_meeting"
                     built == fail \in {"none", "start_recording",
                                        "transcriber_start"}
                     started == IF fail = "transcriber_start"
                                THEN [NewTranscriber EXCEPT !.is_running = TRUE]
                                ELSE NewTranscriber
                     t == IF built THEN m ELSE transcriber
                     r == IF built THEN m ELSE recorder
                 IN  /\ meetings' = IF created
                                    THEN [meetings EXCEPT ![m] = NewMeetingRow]
                                    ELSE meetings
                     /\ next_uuid' = IF created THEN m + 1 ELSE next_uuid
                     /\ current_meeting_id' =
                            IF created THEN m ELSE current_meeting_id
                     /\ IF fail = "none"
                        THEN /\ tr' = [tr EXCEPT ![m] =
                                          TranscriberStart(NewTranscriber)]
                             /\ rec' = [rec EXCEPT ![m] = "recording"]
                             /\ transcriber' = m
                             /\ recorder' = m
                             /\ current_meeting' = m
                             /\ is_recording' = TRUE
                             /\ ctl' = CtlReturn("start_meeting", "True", m)
                        ELSE /\ tr' = TranscriberCleanup(
                                        IF built
                                        THEN [tr EXCEPT ![m] = started]
                                        ELSE tr, t)
                             /\ rec' = RecorderCleanup(rec, r)
                             /\ transcriber' = NoId
                             /\ recorder' = NoId
                             /\ current_meeting' = NoId
                             /\ is_recording' = FALSE
                             /\ ctl' = CtlReturn("start_meeting", "False",
                                                 NoId)
            /\ UNCHANGED <<schema, meeting_chunks,
                           chunk_rowid, meetings_file, backend>>
    /\ UNCHANGED <<client, up, feeds, observed, mig>>
    /\ UNCHANGED <<insights, archiver, audio, legacy>>

\* The capture thread of recorder m delivers a buffer to the streaming
\* callback, transcriber.feed_audio.
Feed(m) ==
    /\ up = "ready" /\ rec[m] = "recording"
    /\ feeds < MaxFeeds
    /\ feeds' = feeds + 1
    /\ \E audio_chunk \in BufLens :
          tr' = [tr EXCEPT ![m].audio_queue = FeedAudio(tr[m], audio_chunk)]
    /\ UNCHANGED <<observed, mig>>
    /\ UNCHANGED <<disk, client, up, backend, is_recording, current_meeting,
                   transcriber, recorder, ctl, current_meeting_id, rec>>
    /\ UNCHANGED <<insights, archiver, audio, legacy>>

\* is_alive() answering False whatever the thread does.
WorkerAlive_never(t) == FALSE

\* worker_thread.is_alive()
WorkerAlive(t) == t.pc \notin {"none", "done"}

\* MeetingTranscriber.stop, after _stop_requested = True: wait for the worker
\* when the thread is alive.
AfterStopRequest_nojoin(alive) == "end_meeting"

AfterStopRequest(alive) == IF alive THEN "join" ELSE "end_meeting"

\* stop_meeting returns None before its try block: no meeting is in progress.
StopMeetingRefused_never(recording) == FALSE

StopMeetingRefused(recording) == ~recording

\* stop_meeting, up to the join inside transcriber.stop().
StopMeeting ==
    /\ up = "ready" /\ ctl.pc = "idle"
    /\ IF StopMeetingRefused(is_recording)
       THEN /\ ctl' = CtlReturn("stop_meeting", "None", NoId)
            /\ tr' = tr
       ELSE IF transcriber # NoId /\ tr[transcriber].is_running
       THEN LET next == AfterStopRequest(WorkerAlive(tr[transcriber]))
            IN  /\ tr' = [tr EXCEPT
                            ![transcriber].stop_requested = TRUE,
                            ![transcriber].is_running = (next = "join")]
                /\ ctl' = [CtlIdle EXCEPT !.pc = next,
                                          !.call = "stop_meeting"]
       ELSE /\ ctl' = [CtlIdle EXCEPT !.pc = "end_meeting",
                                      !.call = "stop_meeting"]
            /\ tr' = tr
    /\ UNCHANGED <<disk, client, up, backend, is_recording, current_meeting,
                   transcriber, recorder, current_meeting_id, rec, feeds,
                   observed, mig>>
    /\ UNCHANGED <<insights, archiver, audio, legacy>>

\* worker_thread.join(timeout=10.0) returns: the worker has exited, or the
\* ten seconds are over and it has not.
StopJoin ==
    /\ up = "ready" /\ ctl.pc = "join"
    /\ tr' = [tr EXCEPT ![transcriber].is_running = FALSE,
                        ![transcriber].timed_out = WorkerAlive(tr[transcriber])]
    /\ ctl' = [ctl EXCEPT !.pc = "end_meeting"]
    /\ UNCHANGED <<disk, client, up, backend, is_recording, current_meeting,
                   transcriber, recorder, current_meeting_id, rec, feeds,
                   observed, mig>>
    /\ UNCHANGED <<insights, archiver, audio, legacy>>

\* stop_meeting: recorder.get_recording_duration(), recorder.stop_recording(),
\* then meeting_storage.end_meeting up to db.end_meeting. An exception of
\* db.end_meeting is handled by stop_meeting: is_recording = False,
\* return None.
StopEndMeeting ==
    /\ up = "ready" /\ ctl.pc = "end_meeting"
    /\ \E duration \in (IF recorder # NoId THEN Durations ELSE {0}) :
          /\ rec' = IF recorder # NoId
                    THEN [rec EXCEPT ![recorder] = "stopped"] ELSE rec
          /\ IF current_meeting_id = NoId
             THEN /\ ctl' = [ctl EXCEPT !.pc = "clear", !.duration = duration]
                  /\ UNCHANGED <<meetings, is_recording>>
             ELSE IF EndMeetingFails(meetings_columns)
             THEN /\ ctl' = CtlReturn("stop_meeting", "None", NoId)
                  /\ is_recording' = FALSE
                  /\ UNCHANGED meetings
             ELSE /\ meetings' =
                        EndMeetingRow(meetings, current_meeting_id, duration)
                  /\ ctl' = [ctl EXCEPT !.pc = "clear",
                                        !.duration = duration,
                                        !.meeting_id = current_meeting_id]
                  /\ UNCHANGED is_recording
    /\ UNCHANGED <<schema, meeting_chunks,
                   chunk_rowid, next_uuid, meetings_file, client, up, backend,
                   current_meeting, transcriber, recorder, current_meeting_id,
                   tr, feeds, observed, mig>>
    /\ UNCHANGED <<insights, archiver, audio, legacy>>

\* meeting_storage.end_meeting after db.end_meeting (_current_meeting_id =
\* None, get_meeting), then the cleanup and the return of stop_meeting.
StopClear ==
    /\ up = "ready" /\ ctl.pc = "clear"
    /\ current_meeting_id' =
           IF ctl.meeting_id # NoId THEN NoId ELSE current_meeting_id
    /\ tr' = TranscriberCleanup(tr, transcriber)
    /\ rec' = RecorderCleanup(rec, recorder)
    /\ transcriber' = NoId
    /\ recorder' = NoId
    /\ is_recording' = FALSE
    /\ current_meeting' = NoId
    /\ ctl' = IF ctl.meeting_id # NoId /\ meetings[ctl.meeting_id].status # "none"
              THEN CtlReturn("stop_meeting", "MeetingEntry", ctl.meeting_id)
              ELSE CtlReturn("stop_meeting", "None", NoId)
    /\ UNCHANGED <<disk, client, up, backend, feeds, observed, mig>>
    /\ UNCHANGED <<insights, archiver, audio, legacy>>

\* A worker back in _worker_loop after _process_audio returned or was skipped:
\* accumulated_audio.clear(); the locals of _process_audio are gone.
ReturnToLoop(t) ==
    [t EXCEPT !.pc = "loop", !.accumulated_audio = <<>>, !.site = "none",
              !.segments = <<>>, !.text_parts = <<>>, !.chunk_text = <<>>,
              !.chunk_index = 0]

\* _worker_loop: the test of the while loop.
LoopTest(t) ==
    [t EXCEPT !.pc = IF WorkerLoopCondition(t) THEN "get" ELSE "done"]

WorkerLoopTest(w) ==
    /\ tr[w].pc = "loop"
    /\ tr' = [tr EXCEPT ![w] = LoopTest(tr[w])]
    /\ UNCHANGED <<disk, client, up, backend, is_recording, current_meeting,
                   transcriber, recorder, ctl, current_meeting_id, rec, feeds,
                   observed, mig>>
    /\ UNCHANGED <<insights, archiver, audio, legacy>>

\* _worker_loop: audio_queue.get(timeout=0.2); a buffer is accumulated and the
\* window is tested, or queue.Empty is handled (the flush on stop).
QueueGet_lifo(t) ==
    LET acc == <<Head(t.audio_queue)>> \o t.accumulated_audio
    IN  IF t.audio_queue # <<>>
        THEN IF WindowReached(AccumulatedDuration(acc))
             THEN [t EXCEPT !.audio_queue = Tail(@),
                            !.accumulated_audio = acc,
                            !.pc = "transcribe", !.site = "window"]
             ELSE [t EXCEPT !.audio_queue = Tail(@),
                            !.accumulated_audio = acc, !.pc = "loop"]
        ELSE IF t.stop_requested /\ t.accumulated_audio # <<>>
             THEN [t EXCEPT !.pc = "transcribe", !.site = "flush"]
             ELSE [t EXCEPT !.pc = "loop"]

QueueGet(t) ==
    LET acc == Append(t.accumulated_audio, Head(t.audio_queue))
    IN  IF t.audio_queue # <<>>
        THEN IF WindowReached(AccumulatedDuration(acc))
             THEN [t EXCEPT !.audio_queue = Tail(@),
                            !.accumulated_audio = acc,
                            !.pc = "transcribe", !.site = "window"]
             ELSE [t EXCEPT !.audio_queue = Tail(@),
                            !.accumulated_audio = acc, !.pc = "loop"]
        ELSE IF t.stop_requested /\ t.accumulated_audio # <<>>
             THEN [t EXCEPT !.pc = "transcribe", !.site = "flush"]
             ELSE [t EXCEPT !.pc = "loop"]

WorkerGet(w) ==
    /\ tr[w].pc = "get"
    /\ tr' = [tr EXCEPT ![w] = QueueGet(tr[w])]
    /\ UNCHANGED <<disk, client, up, backend, is_recording, current_meeting,
                   transcriber, recorder, ctl, current_meeting_id, rec, feeds,
                   observed, mig>>
    /\ UNCHANGED <<insights, archiver, audio, legacy>>

\* _process_audio: backend.model.transcribe returns the segments, or raises
\* (caught and logged by _process_audio).
TranscribeRaises_exit(t) == [ReturnToLoop(t) EXCEPT !.pc = "done"]

TranscribeRaises(t) == ReturnToLoop(t)

TranscribeReturns(t, segments) ==
    [t EXCEPT !.segments = segments, !.text_parts = <<>>, !.pc = "segment"]

WorkerTranscribe(w) ==
    /\ tr[w].pc = "transcribe"
    /\ \/ \E segments \in EngineOutputs :
             tr' = [tr EXCEPT ![w] = TranscribeReturns(tr[w], segments)]
       \/ tr' = [tr EXCEPT ![w] = TranscribeRaises(tr[w])]
    /\ UNCHANGED <<disk, client, up, backend, is_recording, current_meeting,
                   transcriber, recorder, ctl, current_meeting_id, rec, feeds,
                   observed, mig>>
    /\ UNCHANGED <<insights, archiver, audio, legacy>>

\* _process_audio: one turn of "for segment in segments" (with its test of
\* _stop_requested), or the end of the loop: chunk_text is computed and, when
\* it is not empty, on_chunk_transcribed is called.
CollectSegment(t) ==
    LET chunk_text == ChunkText(t.text_parts)
    IN  IF t.segments # <<>> /\ ~t.stop_requested
        THEN [t EXCEPT !.text_parts = Append(@, Head(t.segments)),
                       !.segments = Tail(@)]
        ELSE IF chunk_text # <<>>
        THEN [t EXCEPT !.chunk_text = chunk_text, !.segments = <<>>,
                       !.text_parts = <<>>, !.pc = "add_chunk"]
        ELSE ReturnToLoop(t)

WorkerSegment(w) ==
    /\ tr[w].pc = "segment"
    /\ tr' = [tr EXCEPT ![w] = CollectSegment(tr[w])]
    /\ UNCHANGED <<disk, client, up, backend, is_recording, current_meeting,
                   transcriber, recorder, ctl, current_meeting_id, rec, feeds,
                   observed, mig>>
    /\ UNCHANGED <<insights, archiver, audio, legacy>>

\* _on_chunk_transcribed -> MeetingStorage.add_chunk: the test of
\* _current_meeting_id.
WorkerAddChunk(w) ==
    /\ tr[w].pc = "add_chunk"
    /\ tr' = IF current_meeting_id = NoId
             THEN [tr EXCEPT ![w] = ReturnToLoop(tr[w])]
             ELSE [tr EXCEPT ![w].pc = "count"]
    /\ UNCHANGED <<disk, client, up, backend, is_recording, current_meeting,
                   transcriber, recorder, ctl, current_meeting_id, rec, feeds,
                   observed, mig>>
    /\ UNCHANGED <<insights, archiver, audio, legacy>>

\* add_chunk: chunk_index = db.get_meeting_chunk_count(_current_meeting_id)
WorkerCount(w) ==
    /\ tr[w].pc = "count"
    /\ tr' = [tr EXCEPT ![w].chunk_index =
                            GetMeetingChunkCount(meeting_chunks,
                                                 current_meeting_id),
                        ![w].pc = "insert"]
    /\ UNCHANGED <<disk, client, up, backend, is_recording, current_meeting,
                   transcriber, recorder, ctl, current_meeting_id, rec, feeds,
                   observed, mig>>
    /\ UNCHANGED <<insights, archiver, audio, legacy>>

\* add_chunk: db.add_meeting_chunk(_current_meeting_id, chunk_index, text),
\* one committed transaction; an IntegrityError is rolled back, raised, and
\* caught and logged by _process_audio.
WorkerInsert(w) ==
    /\ tr[w].pc = "insert"
    /\ IF InsertChunkFails(meetings, current_meeting_id)
       THEN UNCHANGED <<meetings, meeting_chunks, chunk_rowid>>
       ELSE /\ meeting_chunks' =
                  InsertChunk(meeting_chunks, chunk_rowid + 1,
                              current_meeting_id, tr[w].chunk_index,
                              tr[w].chunk_text, NoFile)
            /\ meetings' = UpdateTranscript(meetings, current_meeting_id,
                                            tr[w].chunk_text)
            /\ chunk_rowid' = chunk_rowid + 1
    /\ tr' = [tr EXCEPT ![w] = ReturnToLoop(tr[w])]
    /\ UNCHANGED <<schema, next_uuid, meetings_file,
                   client, up, backend, is_recording, current_meeting,
                   transcriber, recorder, ctl, current_meeting_id, rec, feeds,
                   observed, mig>>
    /\ UNCHANGED <<insights, archiver, audio, legacy>>

Next ==
    \/ DbOpen
    \/ StorageInit
    \/ Crash
    \/ SetBackend
    \/ StartMeeting
    \/ StopMeeting
    \/ StopJoin
    \/ StopEndMeeting
    \/ StopClear
    \/ \E m \in Ids : Feed(m)
    \/ \E w \in Ids : WorkerLoopTest(w)
    \/ \E w \in Ids : WorkerGet(w)
    \/ \E w \in Ids : WorkerTranscribe(w)
    \/ \E w \in Ids : WorkerSegment(w)
    \/ \E w \in Ids : WorkerAddChunk(w)
    \/ \E w \in Ids : WorkerCount(w)
    \/ \E w \in Ids : WorkerInsert(w)

Spec == Init /\ [][Next]_vars

----------------------------------------------------------------------------
(* SpecTr: one MeetingTranscriber (object 1), called directly *)

\* MeetingTranscriber(backend).start(sample_rate, callback)
TrStart ==
    /\ up = "down"
    /\ up' = "unit"
    /\ tr' = [tr EXCEPT ![1] = TranscriberStart(NewTranscriber)]
    /\ UNCHANGED <<disk, client, backend, is_recording, current_meeting,
                   transcriber, recorder, ctl, current_meeting_id, rec, feeds,
                   observed, mig>>
    /\ UNCHANGED <<insights, archiver, audio, legacy>>

\* feed_audio(audio_chunk), called by the capture thread.
TrFeed ==
    /\ up = "unit" /\ feeds < MaxTrFeeds
    /\ feeds' = feeds + 1
    /\ \E audio_chunk \in BufLens :
          LET audio_queue == FeedAudio(tr[1], audio_chunk)
          IN  /\ tr' = [tr EXCEPT ![1].audio_queue = audio_queue]
              /\ observed' =
                     IF audio_queue # tr[1].audio_queue
                     THEN [observed EXCEPT !.accepted = Append(@, audio_chunk)]
                     ELSE IF tr[1].is_running
                     THEN [observed EXCEPT !.dropped = @ + 1]
                     ELSE observed
    /\ UNCHANGED <<disk, client, up, backend, is_recording, current_meeting,
                   transcriber, recorder, ctl, current_meeting_id, rec, mig>>
    /\ UNCHANGED <<insights, archiver, audio, legacy>>

\* stop(), up to worker_thread.join(timeout=10.0).
TrStop ==
    /\ up = "unit" /\ ctl.pc = "idle"
    /\ IF ~tr[1].is_running
       THEN /\ ctl' = CtlReturn("stop", "None", NoId)
            /\ UNCHANGED <<tr, observed>>
       ELSE LET next == AfterStopRequest(WorkerAlive(tr[1]))
            IN  /\ tr' = [tr EXCEPT ![1].stop_requested = TRUE,
                                    ![1].is_running = (next = "join")]
                /\ ctl' = IF next = "join"
                          THEN [CtlIdle EXCEPT !.pc = "join", !.call = "stop"]
                          ELSE CtlReturn("stop", "None", NoId)
                /\ observed' = [observed EXCEPT
                                  !.stop_after = <<Len(observed.accepted)>>]
    /\ UNCHANGED <<disk, client, up, backend, is_recording, current_meeting,
                   transcriber, recorder, current_meeting_id, rec, feeds, mig>>
    /\ UNCHANGED <<insights, archiver, audio, legacy>>

\* stop(): join returns (the worker has exited, or the ten seconds are over),
\* is_running = False, worker_thread = None, return.
TrStopJoin ==
    /\ up = "unit" /\ ctl.pc = "join"
    /\ tr' = [tr EXCEPT ![1].is_running = FALSE,
                        ![1].timed_out = WorkerAlive(tr[1])]
    /\ ctl' = CtlReturn("stop", "None", NoId)
    /\ UNCHANGED <<disk, client, up, backend, is_recording, current_meeting,
                   transcriber, recorder, current_meeting_id, rec, feeds,
                   observed, mig>>
    /\ UNCHANGED <<insights, archiver, audio, legacy>>

\* _process_audio: the recording backend's model.transcribe is called with
\* the concatenated buffers; it returns segments or raises.
TrWorkerTranscribe ==
    /\ up = "unit" /\ tr[1].pc = "transcribe"
    /\ \E raised \in BOOLEAN :
          /\ observed' = [observed EXCEPT !.engine_calls = Append(@,
                  [audio_chunks |-> tr[1].accumulated_audio,
                   samples |-> ConcatenatedLen(tr[1].accumulated_audio),
                   raised |-> raised])]
          /\ IF raised
             THEN tr' = [tr EXCEPT ![1] = TranscribeRaises(tr[1])]
             ELSE \E segments \in EngineOutputs :
                     tr' = [tr EXCEPT ![1] = TranscribeReturns(tr[1], segments)]
    /\ UNCHANGED <<disk, client, up, backend, is_recording, current_meeting,
                   transcriber, recorder, ctl, current_meeting_id, rec, feeds,
                   mig>>
    /\ UNCHANGED <<insights, archiver, audio, legacy>>

\* _process_audio: self.on_chunk_transcribed(chunk_text), the recording
\* callback.
TrWorkerEmit ==
    /\ up = "unit" /\ tr[1].pc = "add_chunk"
    /\ observed' = [observed EXCEPT !.emitted = Append(@, tr[1].chunk_text)]
    /\ tr' = [tr EXCEPT ![1] = ReturnToLoop(tr[1])]
    /\ UNCHANGED <<disk, client, up, backend, is_recording, current_meeting,
                   transcriber, recorder, ctl, current_meeting_id, rec, feeds,
                   mig>>
    /\ UNCHANGED <<insights, archiver, audio, legacy>>

NextTr ==
    \/ TrStart
    \/ TrFeed
    \/ TrStop
    \/ TrStopJoin
    \/ up = "unit" /\ WorkerLoopTest(1)
    \/ up = "unit" /\ WorkerGet(1)
    \/ TrWorkerTranscribe
    \/ up = "unit" /\ WorkerSegment(1)
    \/ TrWorkerEmit

SpecTr == Init /\ [][NextTr]_vars

\* join(timeout=10.0) returns after ten seconds at the latest, whatever the
\* worker does.
SpecTrFair == SpecTr /\ WF_vars(TrStopJoin)

----------------------------------------------------------------------------
(* SpecMig: DatabaseManager.__init__ statement by statement, and the open
   store in use (create_meeting, end_meeting). The DDL
   statements of the steps run outside any transaction (the sqlite3 module
   opens one before INSERT, UPDATE and DELETE only), so each is durable at
   once; the UPDATE of schema_version is committed by _init_database. *)

\* __init__ -> _init_database: executescript(SCHEMA_SQL), SELECT version, and
\* for a store without a version row or at the target version the rest of
\* __init__.
MigOpen ==
    /\ up = "down" /\ mig.pc \in {"closed", "raised"}
    /\ meetings_columns' = ExecuteSchemaSql(meetings_columns)
    /\ insights_columns' = CreateInsightsIfNotExists(insights_columns)
    /\ IF schema_version # 0 /\ schema_version < SCHEMA_VERSION
       THEN /\ mig' = [MigClosed EXCEPT !.pc = "v2",
                                        !.from_version = schema_version]
            /\ UNCHANGED <<schema_version, up, meetings, next_uuid,
                           meetings_file, meeting_chunks, chunk_rowid,
                           legacy>>
       ELSE /\ schema_version' = InitDatabaseVersion(schema_version)
            /\ mig' = [MigClosed EXCEPT !.pc = "open",
                                        !.from_version = schema_version]
            /\ up' = "db"
            /\ MigrateFromJson
    /\ UNCHANGED <<client, process, feeds, observed>>
    /\ UNCHANGED <<insights, archiver, audio>>

\* _run_migrations: the v1 -> v2 step.
MigStepV2 ==
    /\ mig.pc = "v2"
    /\ IF StepApplies(mig.from_version, 2)
       THEN \E message \in
                   {AlterAddColumn(meetings_columns, "audio_file")} \cup Faults :
               /\ mig' = [mig EXCEPT
                            !.pc = IF StepV2Raises(message) THEN "raised"
                                   ELSE "v3",
                            !.applied = Append(@, 2),
                            !.message = message]
               /\ meetings_columns' =
                      IF message = "ok"
                      THEN meetings_columns \cup {"audio_file"}
                      ELSE meetings_columns
       ELSE /\ mig' = [mig EXCEPT !.pc = "v3"]
            /\ UNCHANGED meetings_columns
    /\ UNCHANGED <<schema_version, insights_columns, meetings, meeting_chunks,
                   chunk_rowid, next_uuid, meetings_file, client, up, process,
                   feeds, observed>>
    /\ UNCHANGED <<insights, archiver, audio, legacy>>

\* _run_migrations: the v2 -> v3 step.
MigStepV3 ==
    /\ mig.pc = "v3"
    /\ IF StepApplies(mig.from_version, 3)
       THEN \E message \in {"ok"} \cup Faults :
               /\ mig' = [mig EXCEPT
                            !.pc = IF StepV3Raises(message) THEN "raised"
                                   ELSE "v4",
                            !.applied = Append(@, 3),
                            !.message = message]
               /\ insights_columns' =
                      IF message = "ok"
                      THEN CreateInsightsIfNotExists(insights_columns)
                      ELSE insights_columns
       ELSE /\ mig' = [mig EXCEPT !.pc = "v4"]
            /\ UNCHANGED insights_columns
    /\ UNCHANGED <<schema_version, meetings_columns, meetings, meeting_chunks,
                   chunk_rowid, next_uuid, meetings_file, client, up, process,
                   feeds, observed>>
    /\ UNCHANGED <<insights, archiver, audio, legacy>>

\* _run_migrations: the v3 -> v4 step.
MigStepV4 ==
    /\ mig.pc = "v4"
    /\ IF StepApplies(mig.from_version, 4)
       THEN \E message \in {"ok"} \cup Faults :
               /\ mig' = [mig EXCEPT
                            !.pc = IF StepV4Raises(message) THEN "raised"
                                   ELSE "version",
                            !.applied = Append(@, 4),
                            !.message = message]
               /\ insights_columns' =
                      IF message = "ok" THEN RenameCreatedAt(insights_columns)
                      ELSE insights_columns
       ELSE /\ mig' = [mig EXCEPT !.pc = "version"]
            /\ UNCHANGED insights_columns
    /\ UNCHANGED <<schema_version, meetings_columns, meetings, meeting_chunks,
                   chunk_rowid, next_uuid, meetings_file, client, up, process,
                   feeds, observed>>
    /\ UNCHANGED <<insights, archiver, audio, legacy>>

\* _run_migrations: UPDATE schema_version; _init_database: conn.commit();
\* then the rest of __init__.
MigSetVersion ==
    /\ mig.pc = "version"
    /\ schema_version' = SCHEMA_VERSION
    /\ mig' = [mig EXCEPT !.pc = "open"]
    /\ up' = "db"
    /\ MigrateFromJson
    /\ UNCHANGED <<meetings_columns, insights_columns, client, process,
                   feeds, observed>>
    /\ UNCHANGED <<insights, archiver, audio>>

\* The process ends: killed inside _init_database, after __init__ raised, or
\* closed with the store open.
MigExit ==
    /\ mig.pc # "closed"
    /\ mig' = MigClosed
    /\ up' = "down"
    /\ UNCHANGED <<disk, client, process, feeds, observed>>
    /\ UNCHANGED <<insights, archiver, audio, legacy>>

NextMig ==
    \/ MigOpen
    \/ MigStepV2
    \/ MigStepV3
    \/ MigStepV4
    \/ MigSetVersion
    \/ MigExit
    \/ DbCreateMeeting
    \/ DbEndMeeting

\* The stores SpecMig opens: those of Init, and the file this release or a
\* later one left, at the target version or above it (the tables this release
\* knows are as at the target).
InitMig == InitAt(0..(SCHEMA_VERSION + 1))

SpecMig == InitMig /\ [][NextMig]_vars

----------------------------------------------------------------------------
(* SpecIns and SpecDel: the DatabaseManager API with insights and deletion,
   called by one client thread; ctl is that thread's record of its last
   call *)

\* save_insight(meeting_id, insight_type, content, custom_prompt): one
\* committed transaction. The INSERT for a meeting_id that names no meetings
\* row fails (foreign key), is rolled back and raised.
DbSaveInsightOf(keys, contents) ==
    /\ up = "db" /\ txn.stage = "none"
    /\ Len(insight_saves) < MaxInsightSaves
    /\ \E m \in Ids, key \in keys, content \in contents :
          LET insight_type == key[1]
              custom_prompt == key[2]
              existing == ExistingInsight(meeting_insights, m, insight_type,
                                          custom_prompt)
              call == [meeting_id |-> m, insight_type |-> insight_type,
                       content |-> content, custom_prompt |-> custom_prompt,
                       insight_id |-> 0]
          IN  IF existing # 0
              THEN /\ meeting_insights' =
                         UpdateInsight(meeting_insights, existing, content)
                   /\ insight_saves' = Append(insight_saves,
                          [call EXCEPT !.insight_id =
                                          meeting_insights[existing].id])
                   /\ UNCHANGED insight_rowid
              ELSE IF InsertChunkFails(meetings, m)
              THEN /\ insight_saves' = Append(insight_saves, call)
                   /\ UNCHANGED <<meeting_insights, insight_rowid>>
              ELSE /\ meeting_insights' =
                         InsertInsight(meeting_insights, insight_rowid + 1, m,
                                       insight_type, content, custom_prompt)
                   /\ insight_saves' = Append(insight_saves,
                          [call EXCEPT !.insight_id = insight_rowid + 1])
                   /\ insight_rowid' = insight_rowid + 1
    /\ UNCHANGED <<disk, client, up, process, feeds, observed, mig>>
    /\ UNCHANGED <<archiver, audio, legacy>>

DbSaveInsight == DbSaveInsightOf(InsightKeys, InsightContents)

\* delete_meeting(meeting_id): DELETE FROM meetings WHERE id = ?, commit,
\* return cursor.rowcount > 0.
DbDeleteMeeting ==
    /\ up = "db" /\ txn.stage = "none"
    /\ \E m \in Ids :
          IF meetings[m].status # "none"
          THEN /\ meetings' = [meetings EXCEPT ![m] = NoRow]
               /\ meeting_chunks' = CascadeDelete(meeting_chunks, m)
               /\ meeting_insights' = CascadeDelete(meeting_insights, m)
               /\ ctl' = CtlReturn("delete_meeting", "True", m)
          ELSE /\ ctl' = CtlReturn("delete_meeting", "False", m)
               /\ UNCHANGED <<meetings, meeting_chunks, meeting_insights>>
    /\ UNCHANGED <<schema, chunk_rowid, next_uuid, meetings_file, client, up,
                   backend, is_recording, current_meeting, transcriber,
                   recorder, current_meeting_id, tr, rec, feeds, observed, mig,
                   insight_rowid, insight_saves>>
    /\ UNCHANGED <<archiver, audio, legacy>>

\* update_meeting_title(meeting_id, title): the UPDATE, commit,
\* return cursor.rowcount > 0.
DbUpdateTitle ==
    /\ up = "db" /\ txn.stage = "none"
    /\ \E m \in Ids, title \in Titles :
          /\ meetings' = UpdateMeetingTitle(meetings, m, title)
          /\ ctl' = CtlReturn("update_meeting_title",
                              IF meetings[m].status # "none" THEN "True"
                              ELSE "False", m)
    /\ UNCHANGED <<schema, meeting_chunks, chunk_rowid, next_uuid,
                   meetings_file, client, up, backend, is_recording,
                   current_meeting, transcriber, recorder, current_meeting_id,
                   tr, rec, feeds, observed, mig>>
    /\ UNCHANGED <<insights, archiver, audio, legacy>>

\* The client creates meetings, adds chunks (index 0, text "a"), ends
\* meetings and changes titles.
NextTitle ==
    \/ DbOpen
    \/ DbCreateMeeting
    \/ DbAddChunkInsertOf({0}, {<<"a">>})
    \/ DbAddChunkUpdate
    \/ DbAddChunkCommit
    \/ DbEndMeeting
    \/ DbUpdateTitle

SpecTitle == Init /\ [][NextTitle]_vars

----------------------------------------------------------------------------
(* SpecJson: the store is opened and closed again and again next to the JSON
   files of an earlier release; an import can raise; between two opens the
   client creates and deletes meetings and clears the history *)

\* clear_history(): DELETE FROM transcription_history, commit.
DbClearHistory ==
    /\ up = "db" /\ txn.stage = "none"
    /\ transcription_history # {}
    /\ transcription_history' = {}
    /\ UNCHANGED <<disk, client, up, process, feeds, observed, mig, insights,
                   archiver, audio, json_files>>

\* No database file; transcription_history.json and meetings.json are there
\* or not, the meetings with or without chunks.
InitJson ==
    InitOf({0}, JsonMeetingsFiles \cup JsonMeetingsWithChunks,
           JsonHistoryFiles)

NextJson ==
    \/ chunk_rowid < MaxImportedRowid /\ DbOpenOf(ImportOutcomes)
    \/ Crash
    \/ DbCreateMeeting
    \/ DbDeleteMeeting
    \/ DbClearHistory

SpecJson == InitJson /\ [][NextJson]_vars

\* The store SpecIns and SpecDel open: no database file yet (as the temp_db
\* fixture of test_database.py), possibly a meetings.json.
InitIns == InitAt({0})

\* The client saves insights of any type, content and prompt and deletes
\* meetings.
NextIns ==
    \/ DbOpen
    \/ DbCreateMeeting
    \/ DbSaveInsight
    \/ DbDeleteMeeting

SpecIns == InitIns /\ [][NextIns]_vars

\* The client adds chunks (index 0, text "a") and insights (a summary "x"
\* without prompt) to meetings and deletes meetings.
NextDel ==
    \/ DbOpen
    \/ DbCreateMeeting
    \/ DbAddChunkInsertOf({0}, {<<"a">>})
    \/ DbAddChunkUpdate
    \/ DbAddChunkCommit
    \/ DbSaveInsightOf({<<"summary", NULL>>}, {"x"})
    \/ DbDeleteMeeting

SpecDel == InitIns /\ [][NextDel]_vars

----------------------------------------------------------------------------
(* SpecRec and SpecRecPar: MeetingStorage.save_complete_recording, called by
   one thread or by two threads at once *)

\* A file that is no recording is put into the recordings folder.
RecOtherFile ==
    /\ up = "ready" /\ OtherFile \notin recordings_folder
    /\ recordings_folder' = recordings_folder \cup {OtherFile}
    /\ UNCHANGED <<disk, client, up, process, feeds, observed, mig, insights,
                   now, savers, saves, audio, legacy>>

\* save_complete_recording(meeting_id, recorder, max_recordings) is called:
\* it returns None when the recorder has no recording data.
SaveCall(s) ==
    /\ up = "ready" /\ savers[s].pc = "idle"
    /\ Len(saves) < MaxSaves
    /\ \E m \in Ids, max_recordings \in MaxRecordingsValues,
          has_recording_data \in BOOLEAN :
          /\ savers' = [savers EXCEPT ![s] =
                 [SaverIdle EXCEPT
                     !.pc = IF has_recording_data THEN "listdir" ELSE "idle",
                     !.ret = IF has_recording_data THEN "none" ELSE "None",
                     !.meeting_id = m,
                     !.max_recordings = max_recordings]]
          /\ saves' = Append(saves, max_recordings)
    /\ UNCHANGED <<disk, client, up, process, feeds, observed, mig, insights,
                   recordings_folder, now, audio, legacy>>

\* _rotate_recordings: os.listdir and the filter on the names.
RotateListdir(s) ==
    /\ savers[s].pc = "listdir"
    /\ savers' = [savers EXCEPT
                     ![s].listed = ListRecordings(recordings_folder),
                     ![s].pc = "getmtime"]
    /\ UNCHANGED <<disk, client, up, process, feeds, observed, mig, insights,
                   recordings_folder, now, saves, audio, legacy>>

\* _rotate_recordings: os.path.getmtime of each listed file, then the sort.
\* getmtime raises when a listed file is gone: the outer except ends the
\* rotation.
RotateGetmtime(s) ==
    /\ savers[s].pc = "getmtime"
    /\ IF savers[s].listed \subseteq recordings_folder
       THEN \E recordings \in SortedByMtime(savers[s].listed) :
               savers' = [savers EXCEPT ![s].recordings = recordings,
                                        ![s].pc = "evict"]
       ELSE savers' = [savers EXCEPT ![s].pc = "write"]
    /\ UNCHANGED <<disk, client, up, process, feeds, observed, mig, insights,
                   recordings_folder, now, saves, audio, legacy>>

\* _rotate_recordings: one test of "while len(recordings) >= max_recordings"
\* and one turn of the loop: pop(0) (IndexError on the empty list, caught by
\* the outer except), os.remove (it removes the file, or raises and the
\* warning is logged: the file is gone already, or cannot be deleted).
RotateEvict(s) ==
    /\ savers[s].pc = "evict"
    /\ IF Len(savers[s].recordings) >= savers[s].max_recordings
       THEN IF savers[s].recordings = <<>>
            THEN /\ savers' = [savers EXCEPT ![s].pc = "write"]
                 /\ UNCHANGED recordings_folder
            ELSE \E removed \in BOOLEAN :
                    /\ savers' = [savers EXCEPT ![s].recordings = Tail(@)]
                    /\ recordings_folder' =
                           IF removed
                           THEN recordings_folder
                                    \ {Head(savers[s].recordings)}
                           ELSE recordings_folder
       ELSE /\ savers' = [savers EXCEPT ![s].pc = "write"]
            /\ UNCHANGED recordings_folder
    /\ UNCHANGED <<disk, client, up, process, feeds, observed, mig, insights,
                   now, saves, audio, legacy>>

\* save_complete_recording after the rotation: the file name from the clock
\* and the meeting id, then wave.open and writeframes; an exception (the
\* file cannot be written) is logged and None returned.
SaveWrite(s) ==
    /\ savers[s].pc = "write"
    /\ \E timestamp \in {now, now + 1}, written \in BOOLEAN :
          /\ now' = timestamp
          /\ recordings_folder' =
                 IF written
                 THEN recordings_folder
                          \cup {RecordingFile(timestamp, savers[s].meeting_id)}
                 ELSE recordings_folder
          /\ savers' = [savers EXCEPT
                           ![s].pc = "idle",
                           ![s].ret = IF written THEN "filename" ELSE "None"]
    /\ UNCHANGED <<disk, client, up, process, feeds, observed, mig, insights,
                   saves, audio, legacy>>

\* The calls of the threads S, on a freshly created store.
NextRec(S) ==
    \/ DbOpen
    \/ StorageInit
    \/ RecOtherFile
    \/ \E s \in S : SaveCall(s)
    \/ \E s \in S : RotateListdir(s)
    \/ \E s \in S : RotateGetmtime(s)
    \/ \E s \in S : RotateEvict(s)
    \/ \E s \in S : SaveWrite(s)

SpecRec == InitIns /\ [][NextRec({1})]_vars

SpecRecPar == InitIns /\ [][NextRec(Savers)]_vars

----------------------------------------------------------------------------
(* SpecSto: MeetingStorage.start_meeting and add_chunk, called by one client
   thread with audio data or without; the write of the audio file can fail *)

\* MeetingStorage.start_meeting
StoStartMeeting ==
    /\ up = "ready"
    /\ next_uuid <= MaxMeetings
    /\ meetings' = [meetings EXCEPT ![next_uuid] = NewMeetingRow]
    /\ current_meeting_id' = next_uuid
    /\ next_uuid' = next_uuid + 1
    /\ UNCHANGED <<schema, meeting_chunks, chunk_rowid, meetings_file, client,
                   up, backend, is_recording, current_meeting, transcriber,
                   recorder, ctl, tr, rec, feeds, observed, mig>>
    /\ UNCHANGED <<insights, archiver, audio, legacy>>

\* One call as add_chunks records it.
AddChunkCall(m, chunk_index, text, has_audio, written, ret) ==
    [meeting_id |-> m, chunk_index |-> chunk_index, text |-> text,
     has_audio |-> has_audio, written |-> written, ret |-> ret]

\* MeetingStorage.add_chunk(text, audio_data). has_audio: audio_data is given
\* and not empty; written: _save_audio_chunk wrote the file (no exception).
\* An IntegrityError of add_meeting_chunk leaves add_chunk as an exception.
StoAddChunk ==
    /\ up = "ready"
    /\ Len(add_chunks) < MaxAddChunks
    /\ \E text \in StoTexts, has_audio \in BOOLEAN, written \in BOOLEAN :
          /\ written => has_audio
          /\ IF current_meeting_id = NoId
             THEN /\ add_chunks' =
                        Append(add_chunks,
                               AddChunkCall(NoId, 0, text, has_audio, FALSE,
                                            "False"))
                  /\ written = FALSE
                  /\ UNCHANGED <<meetings, meeting_chunks, chunk_rowid,
                                 audio_folder>>
             ELSE LET m == current_meeting_id
                      chunk_index == GetMeetingChunkCount(meeting_chunks, m)
                      audio_file ==
                          IF has_audio
                          THEN SaveAudioChunk(written, m, chunk_index)
                          ELSE NoFile
                      fails == InsertChunkFails(meetings, m)
                  IN  /\ audio_folder' =
                            IF written
                            THEN audio_folder \cup {<<m, chunk_index>>}
                            ELSE audio_folder
                      /\ IF fails
                         THEN UNCHANGED <<meetings, meeting_chunks,
                                          chunk_rowid>>
                         ELSE /\ meeting_chunks' =
                                    InsertChunk(meeting_chunks,
                                                chunk_rowid + 1, m,
                                                chunk_index, text, audio_file)
                              /\ meetings' =
                                    UpdateTranscript(meetings, m, text)
                              /\ chunk_rowid' = chunk_rowid + 1
                      /\ add_chunks' =
                            Append(add_chunks,
                                   AddChunkCall(m, chunk_index, text,
                                                has_audio, written,
                                                IF fails THEN "raised"
                                                ELSE "True"))
    /\ UNCHANGED <<schema, next_uuid, meetings_file, client, up, process,
                   feeds, observed, mig>>
    /\ UNCHANGED <<insights, archiver, legacy>>

NextSto ==
    \/ DbOpen
    \/ StorageInit
    \/ StoStartMeeting
    \/ StoAddChunk

SpecSto == InitIns /\ [][NextSto]_vars

----------------------------------------------------------------------------
(* Properties of the specification (Spec unless SpecDb is named) *)

\* The text the engine returned for the audio a worker is processing:
\* the segments collected so far and those not yet iterated.
EngineText(t) == ChunkText(t.text_parts \o t.segments)

\* A worker leaves the segment loop of _process_audio.
LeavesSegmentLoop(w) ==
    tr[w].pc = "segment" /\ tr'[w].pc \in {"loop", "add_chunk"}

\* C1: when the worker flushes a partial accumulator on stop and the engine
\* returns non-empty text for it, that text is emitted as one more chunk
\* (the step every persisted chunk goes through).
C1_FlushOnStopEmitsChunk ==
    [][\A w \in Ids :
          (/\ LeavesSegmentLoop(w)
           /\ tr[w].site = "flush"
           /\ EngineText(tr[w]) # <<>>)
          => (/\ tr'[w].pc = "add_chunk"
              /\ tr'[w].chunk_text = EngineText(tr[w]))]_vars

\* C2: the worker loop never exits while its accumulator is non-empty.
C2_ExitsWithEmptyAccumulator ==
    \A w \in Ids : tr[w].pc = "done" => tr[w].accumulated_audio = <<>>

\* C3: at most one meetings row has status in_progress.
C3_AtMostOneInProgress == Cardinality(GetInProgressMeetings(meetings)) <= 1

\* C4: when the storage layer is constructed, every row left in_progress
\* becomes interrupted with an end time and its duration unchanged, no row
\* stays in_progress, and no worker or controller call takes part.
C4_RecoveryAtStorageInit ==
    [][(up = "db" /\ up' = "ready")
       => /\ \A m \in Ids :
               /\ meetings[m].status = "in_progress"
                  => /\ meetings'[m].status = "interrupted"
                     /\ meetings'[m].end_time # NULL
                     /\ meetings'[m].duration_seconds =
                            meetings[m].duration_seconds
               /\ meetings'[m].status # "in_progress"
          /\ \A w \in Ids : tr[w].pc = "none"
          /\ ctl.pc = "idle" /\ ~is_recording]_vars

\* C4 witness: after a restart, an interrupted meeting that kept its duration
\* of 40 s and an interrupted meeting that kept a persisted chunk.
C4_RecoveredAfterCrash ==
    /\ up = "ready"
    /\ \E m, n \in Ids :
          /\ meetings[m].status = "interrupted"
          /\ meetings[m].duration_seconds = 40
          /\ meetings[n].status = "interrupted"
          /\ meetings[n].end_time # NULL
          /\ GetMeetingChunkCount(meeting_chunks, n) > 0

\* C5 (SpecDb): every step of the committed store either leaves the chunk
\* rows and all transcripts as they are, or appends one chunk row together
\* with the transcript extension for its text.
C5_AddChunkAtomic ==
    [][\/ /\ meeting_chunks' = meeting_chunks
          /\ \A m \in Ids : meetings'[m].transcript = meetings[m].transcript
       \/ /\ Len(meeting_chunks') = Len(meeting_chunks) + 1
          /\ LET row == meeting_chunks'[Len(meeting_chunks')]
             IN  /\ meeting_chunks' = Append(meeting_chunks, row)
                 /\ meetings' =
                        UpdateTranscript(meetings, row.meeting_id, row.text)]_vars

\* C5 witness: add_meeting_chunk has written the chunk and the transcript in
\* its transaction and nothing of it is committed yet (an error or a crash
\* can follow).
C5_WrittenNotCommitted ==
    /\ txn.stage = "updated"
    /\ txn.meeting_chunks # meeting_chunks
    /\ txn.meetings # meetings

\* The chunk rows of meeting m in rowid order.
ChunkRows(m) == SelectSeq(meeting_chunks, LAMBDA r : r.meeting_id = m)

\* C6: the chunk rows of each meeting, in the order they were persisted,
\* carry the indices 0, 1, 2, ...
C6_ChunkIndicesGapless ==
    \A m \in Ids :
       \A i \in 1..Len(ChunkRows(m)) : ChunkRows(m)[i].chunk_index = i - 1

\* The texts of meeting m's chunks in index order.
TextsByIndex(m) ==
    LET rows == ChunksByIndex(meeting_chunks, m)
    IN  [i \in 1..Len(rows) |-> rows[i].text]

\* C7 (SpecDb): the transcript of a completed meeting is its chunk texts in
\* index order joined by single spaces.
C7_TranscriptIsJoin ==
    \A m \in Ids :
       meetings[m].status = "completed"
       => meetings[m].transcript = join(TextsByIndex(m))

\* A text that is not empty and has no leading or trailing blank.
Trimmed(text) == text # <<>> /\ strip(text) = text

\* The chunks of m were added in index order with trimmed texts.
AddedInOrderTrimmed(m) ==
    /\ ChunksByIndex(meeting_chunks, m) = ChunkRows(m)
    /\ \A i \in 1..Len(ChunkRows(m)) : Trimmed(ChunkRows(m)[i].text)

\* C7 amended (SpecDb): the same, for meetings whose chunks were added in
\* index order with non-empty texts free of leading and trailing blanks.
C7_TranscriptIsJoinOfTrimmed ==
    \A m \in Ids :
       (meetings[m].status = "completed" /\ AddedInOrderTrimmed(m))
       => meetings[m].transcript = join(TextsByIndex(m))

\* C7 witness: a completed meeting with two different trimmed chunks added
\* in index order.
C7_TwoChunksCompleted ==
    \E m \in Ids :
       /\ meetings[m].status = "completed"
       /\ AddedInOrderTrimmed(m)
       /\ Len(ChunkRows(m)) = 2
       /\ ChunkRows(m)[1].text # ChunkRows(m)[2].text
       /\ txn.stage = "none"

\* C8 (SpecDb): after a successful open the meetings table has the eight
\* columns, audio_file among them, whether created or migrated.
C8_SameColumnsFreshOrMigrated ==
    up # "down"
    => meetings_columns =
           {"id", "title", "start_time", "end_time", "duration_seconds",
            "transcript", "status", "audio_file"}

\* A stop_meeting call on an active meeting returns.
StopMeetingReturns ==
    /\ ctl.call = "stop_meeting" /\ ctl.pc # "idle"
    /\ ctl'.pc = "idle" /\ up' = "ready"

\* C9: stop_meeting on an active meeting returns the finalized entry: its row
\* is completed with an end time and the recorded duration, and the
\* controller is idle with no current meeting.
C9_StopReturnsFinalized ==
    [][StopMeetingReturns
       => /\ ctl'.ret = "MeetingEntry"
          /\ meetings'[ctl'.meeting_id].status = "completed"
          /\ meetings'[ctl'.meeting_id].end_time # NULL
          /\ meetings'[ctl'.meeting_id].duration_seconds = ctl.duration
          /\ ~is_recording'
          /\ current_meeting' = NoId]_vars

\* A worker holds a chunk text it produced and has not persisted yet.
Emitting(t) == t.pc \in {"add_chunk", "count", "insert"}

\* stop_meeting stops the worker before capture and before completion.
WorkerStoppedFirst ==
    \A w \in Ids :
       (rec[w] = "stopped" \/ meetings[w].status = "completed")
       => ~tr[w].is_running

\* C10: the worker is stopped before capture stops and before the meeting is
\* completed, and no worker still holds an unpersisted chunk of a completed
\* meeting.
C10_ChunksPersistedBeforeCompleted ==
    /\ WorkerStoppedFirst
    /\ \A w \in Ids : Emitting(tr[w]) => meetings[w].status # "completed"

\* C10 amended: the same for the workers that exited within the bounded wait
\* of stop().
C10_ChunksPersistedUnlessTimedOut ==
    /\ WorkerStoppedFirst
    /\ \A w \in Ids :
          (Emitting(tr[w]) /\ ~tr[w].timed_out)
          => meetings[w].status # "completed"

\* C10 witness: stop_meeting waits in join while the worker is about to
\* persist a chunk it produced.
C10_JoinWaitsForChunk ==
    /\ ctl.pc = "join"
    /\ tr[transcriber].pc = "insert"
    /\ tr[transcriber].stop_requested
    /\ meetings[transcriber].status = "in_progress"

\* A meeting that ended: completed or interrupted.
Finished(row) == row.status \in {"completed", "interrupted"}

\* C11: once a meeting is completed or interrupted, no step changes its
\* transcript, status, end time or duration, or adds a chunk to it.
C11_FinishedMeetingImmutable ==
    [][\A m \in Ids :
          Finished(meetings[m])
          => /\ meetings'[m] = meetings[m]
             /\ GetMeetingChunkCount(meeting_chunks', m) =
                    GetMeetingChunkCount(meeting_chunks, m)]_vars

\* A step of start_meeting that created the meetings row and returned False.
StartFailedAfterCreate ==
    /\ up = "ready" /\ ctl.pc = "idle"
    /\ next_uuid' = next_uuid + 1
    /\ ctl'.call = "start_meeting" /\ ctl'.ret = "False"

\* C12: when start_meeting fails after the meetings row was created, it
\* returns with the controller idle (not recording, no current meeting, no
\* recorder or transcriber held), no recorder capturing, and the transcriber
\* built for this start neither running nor with a live worker thread.
C12_FailedStartRollsBack ==
    [][StartFailedAfterCreate
         => /\ ~is_recording' /\ current_meeting' = NoId
            /\ transcriber' = NoId /\ recorder' = NoId
            /\ \A r \in Ids : rec'[r] # "recording"
            /\ ~tr'[next_uuid].is_running
            /\ ~WorkerAlive(tr'[next_uuid])]_vars

\* start_meeting has failed at transcriber.start: capture had been started and
\* the transcriber marked running; both were cleaned up, the row remains.
C12_StartFailedAtWorkerStart ==
    /\ ctl.call = "start_meeting" /\ ctl.ret = "False"
    /\ \E m \in Ids : /\ meetings[m].status = "in_progress"
                      /\ rec[m] = "cleaned"
                      /\ tr[m].stop_requested /\ ~tr[m].is_running
                      /\ tr[m].pc = "none"

\* A step on which a call of start_meeting returns (the controller thread's
\* record of its last call changes to a start_meeting result).
StartMeetingReturns == ctl' # ctl /\ ctl'.call = "start_meeting"

\* C13: start_meeting called while a meeting is being recorded, or with no
\* backend, returns False in that same step, creates no meetings row, starts
\* no recorder and no worker, and changes nothing of the controller, the
\* storage layer, the transcribers or the recorders.
C13_RefusedStartChangesNothing ==
    [][StartMeetingReturns /\ (is_recording \/ ~backend)
         => /\ ctl'.ret = "False" /\ ctl'.pc = "idle"
            /\ UNCHANGED <<disk, backend, is_recording, current_meeting,
                           transcriber, recorder, current_meeting_id, tr,
                           rec>>]_vars

\* start_meeting was refused while a meeting is being recorded.
C13_RefusedWhileRecording ==
    /\ ctl.call = "start_meeting" /\ ctl.ret = "False"
    /\ is_recording /\ rec[recorder] = "recording"

----------------------------------------------------------------------------
(* Properties of SpecTr *)

\* A step of feed_audio on a transcriber whose queue is full.
FeedOnFullQueue ==
    feeds' = feeds + 1 /\ Len(tr[1].audio_queue) >= QueueCap

\* C14: feed_audio never blocks and the queue never holds more than its
\* capacity: a call is possible in every state, whatever the queue holds; a
\* call on a full queue returns in one step, discards the buffer and leaves
\* the queue and the rest of the transcriber as they were.
C14_FeedNeverBlocksQueueBounded ==
    /\ [](Len(tr[1].audio_queue) <= QueueCap)
    /\ [](up = "unit" /\ feeds < MaxTrFeeds => ENABLED TrFeed)
    /\ [][FeedOnFullQueue
            => /\ tr' = tr
               /\ observed'.accepted = observed.accepted
               /\ tr[1].is_running
                    => observed'.dropped = observed.dropped + 1]_vars

\* A buffer was discarded on a full queue, which the worker has not touched
\* since.
C14_DroppedOnFullQueue ==
    observed.dropped > 0 /\ Len(tr[1].audio_queue) = QueueCap

\* The buffers of all engine calls so far, call after call.
RECURSIVE BuffersOfCalls(_)
BuffersOfCalls(calls) ==
    IF calls = <<>> THEN <<>>
    ELSE Head(calls).audio_chunks \o BuffersOfCalls(Tail(calls))

\* The buffers the worker has popped and not yet handed to the engine.
PoppedNotPassed(t) ==
    IF t.pc \in {"segment", "add_chunk"} THEN <<>> ELSE t.accumulated_audio

RECURSIVE SumOfLengths(_)
SumOfLengths(lens) ==
    IF lens = <<>> THEN 0
    ELSE lens[Len(lens)] + SumOfLengths(SubSeq(lens, 1, Len(lens) - 1))

EngineRaises ==
    /\ Len(observed'.engine_calls) = Len(observed.engine_calls) + 1
    /\ observed'.engine_calls[Len(observed'.engine_calls)].raised

\* C16: when model.transcribe raises for a window, the worker is back in its
\* loop with an empty accumulator, the queue and the flags untouched and
\* nothing emitted for that window; texts are emitted for no more windows
\* than those whose call returned.
C16_EngineErrorKeepsLoopRunning ==
    /\ [][EngineRaises
            => /\ tr'[1].pc = "loop"
               /\ tr'[1].accumulated_audio = <<>>
               /\ tr'[1].audio_queue = tr[1].audio_queue
               /\ tr'[1].is_running = tr[1].is_running
               /\ tr'[1].stop_requested = tr[1].stop_requested
               /\ observed'.emitted = observed.emitted]_vars
    /\ [](Len(observed.emitted) <=
             Cardinality({i \in DOMAIN observed.engine_calls :
                             ~observed.engine_calls[i].raised}))

\* The call for the first window raised; the second window was transcribed
\* and its text emitted.
C16_LaterWindowEmitted ==
    /\ Len(observed.engine_calls) >= 2
    /\ observed.engine_calls[1].raised
    /\ ~observed.engine_calls[2].raised
    /\ Len(observed.emitted) = 1

\* The worker thread of transcriber 1 has been started and has not exited.
ThreadRunning == tr[1].pc \notin {"none", "done"}

\* stop() was called on the running transcriber and has returned.
StopReturned ==
    ctl.call = "stop" /\ ctl.pc = "idle" /\ observed.stop_after # NoStop

\* C17: stop() always returns. A stop() that waits in join returns (the wait
\* is bounded); when it returns the stop flag is set and the transcriber is
\* marked not running; the return of the join leaves the worker thread where
\* it is, with its queue and accumulator; a worker still running after stop()
\* returned means the wait timed out.
C17_StopAlwaysReturns ==
    /\ (ctl.pc = "join") ~> (ctl.pc = "idle")
    /\ [][ctl.pc = "join" /\ ctl'.pc = "idle"
            => /\ tr'[1].pc = tr[1].pc
               /\ tr'[1].audio_queue = tr[1].audio_queue
               /\ tr'[1].accumulated_audio = tr[1].accumulated_audio
               /\ tr'[1].timed_out = ThreadRunning]_vars
    /\ [](StopReturned
            => /\ tr[1].stop_requested /\ ~tr[1].is_running
               /\ ThreadRunning => tr[1].timed_out)

\* stop() has returned after its wait timed out: the worker thread is still
\* running, in the middle of a window, and the transcriber is marked stopped.
C17_ReturnedWithWorkerRunning ==
    /\ StopReturned
    /\ tr[1].timed_out /\ ~tr[1].is_running
    /\ tr[1].pc = "segment"

\* Exactly three buffers of ten seconds were accepted, all of them before
\* stop() was called (if it was).
ThreeTenSecondBuffers ==
    /\ observed.accepted =
           <<10 * SAMPLE_RATE, 10 * SAMPLE_RATE, 10 * SAMPLE_RATE>>
    /\ observed.stop_after \in {NoStop, <<3>>}

\* C18: with three 10-second buffers at 16 kHz and the 30-second window,
\* model.transcribe is called at most once, on all three buffers (480000
\* samples); once the worker has popped the three it has made that call
\* without waiting for stop(), and its accumulator is empty afterwards; when
\* the worker has exited after a stop() there is still exactly one call.
C18_ExactWindowTranscribedOnce ==
    ThreeTenSecondBuffers
    => /\ Len(observed.engine_calls) <= 1
       /\ observed.engine_calls # <<>>
            => /\ observed.engine_calls[1].audio_chunks = observed.accepted
               /\ observed.engine_calls[1].samples = 480000
       /\ tr[1].audio_queue = <<>> /\ tr[1].pc \in {"loop", "get", "done"}
            => /\ Len(observed.engine_calls) = 1
               /\ tr[1].accumulated_audio = <<>>

\* The three buffers made one window whose text was emitted; stop() was
\* called afterwards and has returned, the worker has exited: one call.
C18_StoppedAfterExactWindow ==
    /\ ThreeTenSecondBuffers /\ StopReturned
    /\ tr[1].pc = "done"
    /\ Len(observed.emitted) = 1
    /\ Len(observed.engine_calls) = 1

----------------------------------------------------------------------------
(* Properties of SpecMig *)

\* The steps from_version + 1 .. SCHEMA_VERSION in ascending order (none for
\* a store without version row or at the target).
StepsAbove(from_version) ==
    IF from_version = 0 THEN <<>>
    ELSE [i \in 1..(SCHEMA_VERSION - from_version) |-> from_version + i]

\* C19: an open that finds stored version v below the target runs the steps
\* v+1 .. target, each once, in ascending order, and none at or below v; the
\* target version is stored after the last of them and not before.
C19_StepsAboveStoredVersionInOrder ==
    /\ mig.pc = "open"
         => /\ mig.applied = StepsAbove(mig.from_version)
            /\ mig.from_version <= SCHEMA_VERSION
                 => schema_version = SCHEMA_VERSION
    /\ mig.pc \in {"v2", "v3", "v4", "version", "raised"}
         => /\ schema_version = mig.from_version
            /\ \A i \in DOMAIN mig.applied :
                  mig.applied[i] = mig.from_version + i

\* An open of a store at version 2 has completed: steps 3 and 4 ran.
C19_OpenedFromVersion2 ==
    mig.pc = "open" /\ mig.from_version = 2 /\ mig.applied = <<3, 4>>

\* A step of _run_migrations whose block is entered and whose statements meet
\* no error other than what the schema itself answers.
RunsStep(pc) ==
    /\ mig.pc = pc
    /\ Len(mig'.applied) = Len(mig.applied) + 1
    /\ mig'.message \notin Faults

\* An open begins.
OpenBegins ==
    mig.pc \in {"closed", "raised"} /\ mig'.pc \notin {"closed", "raised"}

\* C20: a migration step run on a schema that already has its effect (the
\* column is there, the table is there, the column is already renamed) does
\* not raise, goes on to the next step and leaves the schema and the stored
\* version as they were; an open of a store already at the target version
\* runs no step and leaves schema and version as they were.
C20_RerunStepChangesNothing ==
    /\ [][RunsStep("v2") /\ "audio_file" \in meetings_columns
            => mig'.pc = "v3" /\ UNCHANGED schema]_vars
    /\ [][RunsStep("v3") /\ insights_columns # {}
            => mig'.pc = "v4" /\ UNCHANGED schema]_vars
    /\ [][RunsStep("v4") /\ "generated_at" \in insights_columns
            => mig'.pc = "version" /\ UNCHANGED schema]_vars
    /\ [][OpenBegins /\ schema_version = SCHEMA_VERSION
            => /\ mig'.pc = "open" /\ mig'.applied = <<>>
               /\ UNCHANGED schema]_vars

\* A retried startup has run the v1 -> v2 step again: the column was there
\* (the earlier run added it and did not get to store the version).
C20_DuplicateColumnTolerated ==
    /\ mig.pc = "v3" /\ mig.message = "duplicate column name"
    /\ schema_version = 1 /\ "audio_file" \in meetings_columns

\* The schema a store at version v has: audio_file in meetings from version
\* 2, meeting_insights from version 3, its generated_at column from version 4.
SchemaMatchesVersion(cols, icols, v) ==
    /\ v >= 2 => "audio_file" \in cols
    /\ v >= 3 => icols # {}
    /\ v >= 4 => "generated_at" \in icols /\ "created_at" \notin icols

\* A statement of a migration step raises an error that is none of the
\* recognised already-applied answers.
StepFails ==
    /\ Len(mig'.applied) = Len(mig.applied) + 1
    /\ mig'.message \in Faults

\* The migration-failure part of C21: a step that fails with an unrecognised
\* error makes the open raise with the store not constructed and the stored
\* version where it was, below the target; while an open has raised the store
\* is not usable and its version is the one the open found.
FailedStepAbortsOpen ==
    /\ [][StepFails
            => /\ mig'.pc = "raised" /\ up' = "down"
               /\ UNCHANGED schema
               /\ schema_version' < SCHEMA_VERSION]_vars
    /\ [](mig.pc = "raised"
            => up = "down" /\ schema_version = mig.from_version)

\* C21: a migration step failing for a reason other than the recognised
\* already-applied cases makes the open raise and leaves the stored version
\* below the target; and an opened (usable) store always has the schema of
\* its stored version.
C21_FailedMigrationNeverUsable ==
    /\ FailedStepAbortsOpen
    /\ [](up = "db"
            => SchemaMatchesVersion(meetings_columns, insights_columns,
                                    schema_version))

\* Rows of the schema_version table (version is its PRIMARY KEY; the stored
\* version 0 stands for the table without a row).
SchemaVersionRows == IF schema_version = 0 THEN 0 ELSE 1

\* C22: an opened store has exactly one schema_version row; no step lowers
\* the stored version; an open that finds the version at or above the target
\* completes without running a step and leaves the version as it was.
C22_OneRowVersionNeverDecreases ==
    /\ [](mig.pc = "open" => up = "db" /\ SchemaVersionRows = 1)
    /\ [][schema_version' >= schema_version]_vars
    /\ [][OpenBegins /\ schema_version >= SCHEMA_VERSION
            => /\ mig'.pc = "open" /\ mig'.applied = <<>>
               /\ schema_version' = schema_version]_vars

\* A store a later release left above the target has been opened, closed and
\* opened again: its version is still the one found.
C22_OpenedAboveTarget ==
    /\ mig.pc = "open" /\ up = "db"
    /\ mig.from_version = SCHEMA_VERSION + 1
    /\ schema_version = SCHEMA_VERSION + 1

----------------------------------------------------------------------------
(* Properties of SpecDel (C23) and SpecIns (C24) *)

\* The rows of a table that reference meeting m, in rowid order.
RowsOf(rows, m) == SelectSeq(rows, LAMBDA r : r.meeting_id = m)

\* A step of delete_meeting(m).
DeletesMeeting(m) == DbDeleteMeeting /\ ctl'.meeting_id = m

\* C23: delete_meeting of an existing meeting returns True and removes its
\* row, all its chunks and all its insights (the rows of the other meetings
\* stay); delete_meeting of an id without a row returns False and changes
\* nothing in the store.
C23_DeleteCascadesOrReturnsFalse ==
    [][\A m \in Ids :
          DeletesMeeting(m)
          => IF meetings[m].status # "none"
             THEN /\ ctl'.ret = "True"
                  /\ meetings'[m].status = "none"
                  /\ RowsOf(meeting_chunks', m) = <<>>
                  /\ RowsOf(meeting_insights', m) = <<>>
                  /\ \A n \in Ids \ {m} :
                        /\ meetings'[n] = meetings[n]
                        /\ RowsOf(meeting_chunks', n) =
                               RowsOf(meeting_chunks, n)
                        /\ RowsOf(meeting_insights', n) =
                               RowsOf(meeting_insights, n)
             ELSE /\ ctl'.ret = "False"
                  /\ UNCHANGED <<disk, meeting_insights, insight_rowid>>]_vars

\* delete_meeting has returned True for a meeting that had a committed chunk
\* and an insight: both tables are empty again, a second meeting is still
\* there.
C23_DeletedWithChunkAndInsight ==
    /\ ctl.call = "delete_meeting" /\ ctl.ret = "True"
    /\ meetings[ctl.meeting_id].status = "none"
    /\ chunk_rowid >= 1 /\ meeting_chunks = <<>>
    /\ insight_rowid >= 1 /\ meeting_insights = <<>>
    /\ \E n \in Ids : meetings[n].status # "none"

\* Two custom prompts that make the same key: equal, or one absent and the
\* other empty.
SamePrompt(p, q) == p = q \/ (p \in {NULL, ""} /\ q \in {NULL, ""})

\* Row r is the insight of meeting m under (insight_type, custom_prompt).
HasKey(r, m, insight_type, custom_prompt) ==
    /\ r.meeting_id = m
    /\ r.insight_type = insight_type
    /\ SamePrompt(r.custom_prompt, custom_prompt)

\* No two rows of meeting_insights have the same meeting and key.
AtMostOneInsightPerKey ==
    \A i, j \in DOMAIN meeting_insights :
       i # j => ~HasKey(meeting_insights[i], meeting_insights[j].meeting_id,
                        meeting_insights[j].insight_type,
                        meeting_insights[j].custom_prompt)

\* A step of save_insight, and the call it made.
SavesInsight == Len(insight_saves') = Len(insight_saves) + 1

LastSave == insight_saves'[Len(insight_saves')]

\* C24: a meeting has at most one insight per (type, custom prompt), None and
\* the empty prompt being one key; a save under a key that has a row replaces
\* that row's content, returns its id and leaves every other row and the
\* number of rows as they were; a save under a key without a row (for an
\* existing meeting) adds one row with an id no row has.
C24_OneInsightPerKeyUpsert ==
    /\ []AtMostOneInsightPerKey
    /\ [][SavesInsight
            => LET c == LastSave
                   held == {i \in DOMAIN meeting_insights :
                               HasKey(meeting_insights[i], c.meeting_id,
                                      c.insight_type, c.custom_prompt)}
               IN  IF held # {}
                   THEN /\ DOMAIN meeting_insights' = DOMAIN meeting_insights
                        /\ \A i \in DOMAIN meeting_insights :
                              IF i \in held
                              THEN /\ meeting_insights'[i] =
                                        [meeting_insights[i] EXCEPT
                                            !.content = c.content]
                                   /\ c.insight_id = meeting_insights[i].id
                              ELSE meeting_insights'[i] = meeting_insights[i]
                   ELSE IF meetings[c.meeting_id].status # "none"
                   THEN /\ Len(meeting_insights') = Len(meeting_insights) + 1
                        /\ SubSeq(meeting_insights', 1, Len(meeting_insights))
                               = meeting_insights
                        /\ LET new == meeting_insights'[Len(meeting_insights')]
                           IN  /\ new.id = c.insight_id
                               /\ new.content = c.content
                               /\ HasKey(new, c.meeting_id, c.insight_type,
                                         c.custom_prompt)
                               /\ \A i \in DOMAIN meeting_insights :
                                     meeting_insights[i].id # new.id
                   ELSE meeting_insights' = meeting_insights]_vars

\* Two saves for one meeting and type, the first without a prompt, the second
\* with the empty prompt and another content: one row, holding the second
\* content under the id both calls returned.
C24_UpsertAcrossAbsentAndEmptyPrompt ==
    /\ Len(insight_saves) = 2
    /\ insight_saves[1].custom_prompt = NULL
    /\ insight_saves[2].custom_prompt = ""
    /\ insight_saves[1].content # insight_saves[2].content
    /\ insight_saves[1].insight_id = insight_saves[2].insight_id
    /\ Len(meeting_insights) = 1
    /\ meeting_insights[1].content = insight_saves[2].content
    /\ meeting_insights[1].id = insight_saves[1].insight_id

----------------------------------------------------------------------------
(* Properties of SpecRec and SpecRecPar *)

\* The archived recordings: the files of the folder with the recording prefix.
Archived(folder) == {file \in folder : file.prefix = "meeting_"}

\* A step on which save_complete_recording of thread s writes its file and
\* returns the file name.
SaveReturnsFile(s) ==
    /\ savers[s].pc = "write" /\ savers'[s].pc = "idle"
    /\ savers'[s].ret = "filename"

\* C25: whatever max_recordings is, after each save that wrote its file the
\* folder holds at most max_recordings archived recordings.
C25_AtMostMaxRecordingsAfterSave ==
    [][\A s \in Savers :
          SaveReturnsFile(s)
          => Cardinality(Archived(recordings_folder'))
                <= savers[s].max_recordings]_vars

\* A step on which thread s is in the eviction loop and a file disappears.
Evicts(s) ==
    savers[s].pc = "evict" /\ recordings_folder' # recordings_folder

\* C26: save_complete_recording evicts before it writes: the step that writes
\* the new file removes nothing and finds fewer than max_recordings archived
\* recordings; every eviction removes a file with the recording prefix that
\* no surviving archived recording is older than.
C26_EvictsOldestBeforeWrite ==
    [][\A s \in Savers :
          /\ SaveReturnsFile(s)
             => /\ recordings_folder \subseteq recordings_folder'
                /\ Cardinality(Archived(recordings_folder))
                      < savers[s].max_recordings
          /\ Evicts(s)
             => \A gone \in recordings_folder \ recordings_folder' :
                   /\ gone.prefix = "meeting_"
                   /\ \A kept \in Archived(recordings_folder') :
                         gone.mtime <= kept.mtime]_vars

\* C27: when the calls made so far all passed the same max_recordings, a save
\* that wrote its file leaves at most max_recordings + 1 archived recordings,
\* however the steps of two calls interleave.
C27_ConcurrentSavesExceedByOne ==
    [][\A s \in Savers :
          (/\ SaveReturnsFile(s)
           /\ \A i \in DOMAIN saves : saves[i] = savers[s].max_recordings)
          => Cardinality(Archived(recordings_folder'))
                <= savers[s].max_recordings + 1]_vars


----------------------------------------------------------------------------
(* Properties of SpecSto *)

\* The add_chunk call a step has just made.
AddChunkReturned == add_chunks'[Len(add_chunks')]

\* The calls before call i that were made for the same meeting.
EarlierCalls(i) ==
    {j \in 1..(i - 1) : add_chunks[j].meeting_id = add_chunks[i].meeting_id}

\* The path the row of a call holds: the file's when it was written.
StoredPath(call) ==
    IF call.written THEN <<call.meeting_id, call.chunk_index>> ELSE NoFile

\* C28: an add_chunk whose audio file could not be written appends the row
\* with the text and no audio path, extends the meeting's transcript by the
\* text and returns True; and every call made during a meeting, before or
\* after such a failure, returned True, got the next chunk index and has its
\* row, with the file's path exactly when the file was written.
C28_AudioWriteFailureKeepsText ==
    /\ [][(/\ add_chunks' # add_chunks
           /\ current_meeting_id # NoId
           /\ AddChunkReturned.has_audio
           /\ ~AddChunkReturned.written)
          => LET m == current_meeting_id
                 call == AddChunkReturned
             IN  /\ call.ret = "True"
                 /\ meeting_chunks' =
                       Append(meeting_chunks,
                              [id |-> chunk_rowid + 1, meeting_id |-> m,
                               chunk_index |->
                                   GetMeetingChunkCount(meeting_chunks, m),
                               text |-> call.text, audio_file |-> NoFile])
                 /\ meetings'[m].transcript =
                       ExtendTranscript(meetings[m].transcript, call.text)
                 /\ audio_folder' = audio_folder]_vars
    /\ [](\A i \in DOMAIN add_chunks :
             add_chunks[i].meeting_id # NoId
             => LET call == add_chunks[i]
                IN  /\ call.ret = "True"
                    /\ call.chunk_index = Cardinality(EarlierCalls(i))
                    /\ \E k \in DOMAIN meeting_chunks :
                          /\ meeting_chunks[k].meeting_id = call.meeting_id
                          /\ meeting_chunks[k].chunk_index = call.chunk_index
                          /\ meeting_chunks[k].text = call.text
                          /\ meeting_chunks[k].audio_file = StoredPath(call)
                    /\ (call.written
                        <=> <<call.meeting_id, call.chunk_index>>
                               \in audio_folder))

\* A meeting whose first chunk lost its audio file and whose second chunk
\* was stored with its file.
C28_ChunkStoredAfterFailedAudioWrite ==
    \E i, j \in DOMAIN add_chunks :
       /\ i < j
       /\ add_chunks[i].meeting_id = add_chunks[j].meeting_id
       /\ add_chunks[i].meeting_id # NoId
       /\ add_chunks[i].has_audio /\ ~add_chunks[i].written
       /\ add_chunks[i].ret = "True"
       /\ add_chunks[j].written
       /\ add_chunks[j].ret = "True"


----------------------------------------------------------------------------
(* Properties of Spec: the controller's lifecycle *)

\* The controller's state: Finalizing while stop_meeting is running,
\* Recording while is_recording is set, Idle otherwise.
ControllerState ==
    IF ctl.pc \in {"join", "end_meeting", "clear"} THEN "Finalizing"
    ELSE IF is_recording THEN "Recording"
    ELSE "Idle"

\* The same, in the next state.
ControllerStateNext ==
    IF ctl'.pc \in {"join", "end_meeting", "clear"} THEN "Finalizing"
    ELSE IF is_recording' THEN "Recording"
    ELSE "Idle"

\* The moves of the lifecycle; the end of the process leaves any state for
\* the Idle of the next process.
LifecycleMoves ==
    {<<"Idle", "Recording">>, <<"Recording", "Finalizing">>,
     <<"Finalizing", "Idle">>}

\* C29: the controller moves Idle, Recording, Finalizing, Idle (and from any
\* state to Idle when the process ends); a meeting's status becomes
\* interrupted only on the step that constructs MeetingStorage at process
\* start, from in_progress, while the controller is idle and running no
\* call; and a meeting that stop_meeting completed stays completed.
C29_InterruptedOnlyAtStartup ==
    [][/\ ControllerStateNext # ControllerState
          => \/ <<ControllerState, ControllerStateNext>> \in LifecycleMoves
             \/ up' = "down" /\ ControllerStateNext = "Idle"
       /\ \A m \in Ids :
             /\ (meetings'[m].status = "interrupted"
                 /\ meetings[m].status # "interrupted")
                => /\ up = "db" /\ up' = "ready"
                   /\ meetings[m].status = "in_progress"
                   /\ ControllerState = "Idle" /\ ctl.pc = "idle"
                   /\ current_meeting_id = NoId
             /\ meetings[m].status = "completed"
                => meetings'[m].status = "completed"]_vars

\* A second process has started: the meeting stop_meeting returned is
\* completed and the meeting that was being recorded when the first process
\* ended is interrupted.
C29_CompletedKeptInterruptedFound ==
    /\ up = "ready"
    /\ \E m, n \in Ids :
          /\ meetings[m].status = "completed"
          /\ meetings[m].duration_seconds \in Durations
          /\ meetings[n].status = "interrupted"


\* The worker's positions inside on_chunk_transcribed.
InCallback == {"add_chunk", "count", "insert"}

\* text is not empty and has no space at either end.
NonEmptyTrimmed(text) == text # <<>> /\ strip(text) = text

\* C30: a worker is inside on_chunk_transcribed only with a non-empty,
\* trimmed text; the step on which _process_audio finds the window's text
\* empty returns to the loop and leaves the chunk rows and their count as
\* they are; rows are only appended by a worker's callback, with its text;
\* and no chunk row has an empty or untrimmed text.
C30_CallbackOnlyWithNonEmptyText ==
    /\ [](/\ \A w \in Ids :
                tr[w].pc \in InCallback => NonEmptyTrimmed(tr[w].chunk_text)
          /\ \A k \in DOMAIN meeting_chunks :
                NonEmptyTrimmed(meeting_chunks[k].text))
    /\ [][/\ \A w \in Ids :
                (/\ tr[w].pc = "segment"
                 /\ tr'[w].pc # "segment"
                 /\ up' # "down"
                 /\ ChunkText(tr[w].text_parts) = <<>>)
                => /\ tr'[w].pc \notin InCallback
                   /\ meeting_chunks' = meeting_chunks
                   /\ \A m \in Ids :
                         GetMeetingChunkCount(meeting_chunks', m)
                            = GetMeetingChunkCount(meeting_chunks, m)
          /\ meeting_chunks' # meeting_chunks
             => \E w \in Ids :
                   /\ tr[w].pc = "insert"
                   /\ meeting_chunks' =
                         InsertChunk(meeting_chunks, chunk_rowid + 1,
                                     current_meeting_id, tr[w].chunk_index,
                                     tr[w].chunk_text, NoFile)]_vars

\* The engine returned only white space for a window of a meeting that
\* already has a chunk: the worker is about to leave _process_audio without
\* calling back.
C30_EmptyWindowAfterChunk ==
    \E w \in Ids :
       /\ tr[w].pc = "segment"
       /\ tr[w].segments = <<>>
       /\ tr[w].text_parts # <<>>
       /\ ChunkText(tr[w].text_parts) = <<>>
       /\ current_meeting_id # NoId
       /\ GetMeetingChunkCount(meeting_chunks, current_meeting_id) > 0


\* C31: stop_meeting called while is_recording is False returns None and
\* changes neither the store nor the controller, the storage layer's current
\* meeting, the recorders or the transcribers and their threads.
C31_StopWhenIdleIsNoOp ==
    [][(StopMeeting /\ ~is_recording)
       => /\ ctl' = CtlReturn("stop_meeting", "None", NoId)
          /\ UNCHANGED <<disk, backend, is_recording, current_meeting,
                         transcriber, recorder, current_meeting_id, tr,
                         rec>>]_vars

\* stop_meeting has returned None in a process that never started a meeting.
C31_StoppedWithoutMeeting ==
    /\ up = "ready"
    /\ next_uuid = 1
    /\ ~is_recording
    /\ ctl = CtlReturn("stop_meeting", "None", NoId)


----------------------------------------------------------------------------
(* Properties of SpecTitle *)

\* update_meeting_title was called for meeting m on this step.
UpdatesTitle(m) == DbUpdateTitle /\ ctl'.meeting_id = m

\* C32: update_meeting_title on an existing meeting returns True and changes
\* nothing but that row's title, which becomes one of the titles passed: its
\* status, transcript, end time and duration, the chunks, the insights and
\* every other row stay; on an id without row it returns False and changes
\* nothing.
C32_UpdateTitleChangesOnlyTitle ==
    [][\A m \in Ids :
          UpdatesTitle(m)
          => /\ UNCHANGED <<meeting_chunks, chunk_rowid, meeting_insights,
                            schema, next_uuid>>
             /\ \A n \in Ids \ {m} : meetings'[n] = meetings[n]
             /\ IF meetings[m].status # "none"
                THEN /\ ctl'.ret = "True"
                     /\ meetings'[m].title \in Titles
                     /\ meetings'[m] =
                           [meetings[m] EXCEPT !.title = meetings'[m].title]
                ELSE /\ ctl'.ret = "False"
                     /\ meetings' = meetings]_vars

\* The title of a completed meeting with a chunk was changed while another
\* meeting keeps its own.
C32_TitleChangedAmongOthers ==
    \E m, n \in Ids :
       /\ ctl = CtlReturn("update_meeting_title", "True", m)
       /\ meetings[m].title = "New"
       /\ meetings[m].status = "completed"
       /\ GetMeetingChunkCount(meeting_chunks, m) > 0
       /\ n # m
       /\ meetings[n].status # "none"
       /\ meetings[n].title # "New"


----------------------------------------------------------------------------
(* Properties of SpecJson *)

\* The step is an open of the store.
OpensStore == up = "down" /\ up' = "db"

\* The rows of the file's meetings and chunks are in the next state's store.
MeetingsImported(file) ==
    /\ \A i \in DOMAIN file :
          meetings'[file[i].id] = JsonMeetingRow(file[i])
    /\ \A k \in DOMAIN JsonChunks(file) :
          \E row \in DOMAIN meeting_chunks' :
             /\ meeting_chunks'[row].meeting_id = JsonChunks(file)[k].meeting_id
             /\ meeting_chunks'[row].chunk_index
                   = JsonChunks(file)[k].chunk_index
             /\ meeting_chunks'[row].text = JsonChunks(file)[k].text

\* The entries of the history file are in the next state's table.
HistoryImported(file) ==
    \A i \in DOMAIN file : file[i] \in transcription_history'

----------------------------------------------------------------------------
(* Properties of Spec: workers that outlive their meeting *)

\* C34: a worker appends its chunk to the meeting it was started for (worker
\* w is the thread of the transcriber of meeting w, fed by that meeting's
\* recorder only): the row a worker inserts names its own meeting.
C34_ChunkGoesToItsOwnMeeting ==
    [][\A w \in Ids :
          (tr[w].pc = "insert" /\ tr'[w].pc # "insert"
           /\ meeting_chunks' # meeting_chunks)
          => meeting_chunks'[Len(meeting_chunks')].meeting_id = w]_vars


\* C35: MeetingStorage._current_meeting_id, when set, names a meetings row
\* with status in_progress, and it is set exactly when the controller is
\* recording (is_recording, from the return of start_meeting to the return
\* of stop_meeting).
C35_CurrentMeetingIsTheRecordingOne ==
    up = "ready"
    => /\ current_meeting_id # NoId
          => meetings[current_meeting_id].status = "in_progress"
       /\ (current_meeting_id # NoId) <=> is_recording


----------------------------------------------------------------------------
(* SpecRestart: one MeetingTranscriber (object 1) started and stopped again
   and again. tr[1] holds the object's fields and the locals of the thread
   self.worker_thread was last set to; a slot w > 1 holds the locals of a
   thread the object no longer refers to (stop() gave up waiting for it and
   set worker_thread = None). *)

MaxRestartFeeds == 2    \* calls of feed_audio in one behaviour of SpecRestart

\* What the thread of slot w sees: its own locals, and the fields of the
\* one object (is_running, _stop_requested, audio_queue).
ThreadView(w) ==
    [tr[w] EXCEPT !.is_running = tr[1].is_running,
                  !.stop_requested = tr[1].stop_requested,
                  !.timed_out = tr[1].timed_out,
                  !.audio_queue = tr[1].audio_queue]

\* The locals of a thread, kept in a slot of their own.
ThreadLocals(t) ==
    [t EXCEPT !.is_running = FALSE, !.stop_requested = FALSE,
              !.timed_out = FALSE, !.audio_queue = <<>>]

\* The slots after the thread of slot w took a step that left it, and the
\* object's queue, as in t.
ThreadStep(w, t) ==
    [x \in Ids |->
        IF x = w /\ x = 1 THEN t
        ELSE IF x = w THEN ThreadLocals(t)
        ELSE IF x = 1 THEN [tr[1] EXCEPT !.audio_queue = t.audio_queue]
        ELSE tr[x]]

\* start() returns at once: "Meeting transcriber already running".
StartRefused(t) == t.is_running

\* start(sample_rate, callback) on the object, any number of times. When it
\* is not refused it sets the flags and starts a new thread; a thread of an
\* earlier start that is still alive keeps running, unreferenced.
RstStart ==
    /\ up \in {"down", "unit"} /\ ctl.pc = "idle"
    /\ up' = "unit"
    /\ ctl' = CtlReturn("start", "None", NoId)
    /\ IF StartRefused(tr[1])
       THEN UNCHANGED tr
       ELSE LET started ==
                    TranscriberStart(
                        [NewTranscriber EXCEPT
                            !.audio_queue = tr[1].audio_queue,
                            !.timed_out = tr[1].timed_out])
            IN  IF ~WorkerAlive(tr[1])
                THEN tr' = [tr EXCEPT ![1] = started]
                ELSE \E w \in Ids \ {1} :
                        /\ ~WorkerAlive(tr[w])
                        /\ \A x \in Ids \ {1} : ~WorkerAlive(tr[x]) => w <= x
                        /\ tr' = [tr EXCEPT ![w] = ThreadLocals(tr[1]),
                                            ![1] = started]
    /\ UNCHANGED <<disk, client, backend, is_recording, current_meeting,
                   transcriber, recorder, current_meeting_id, rec, feeds,
                   observed, mig>>
    /\ UNCHANGED <<insights, archiver, audio, legacy>>

\* feed_audio(audio_chunk), called by the capture thread.
RstFeed ==
    /\ up = "unit" /\ feeds < MaxRestartFeeds
    /\ feeds' = feeds + 1
    /\ \E audio_chunk \in BufLens :
          tr' = [tr EXCEPT ![1].audio_queue = FeedAudio(tr[1], audio_chunk)]
    /\ UNCHANGED <<disk, client, up, backend, is_recording, current_meeting,
                   transcriber, recorder, ctl, current_meeting_id, rec,
                   observed, mig>>
    /\ UNCHANGED <<insights, archiver, audio, legacy>>

\* _worker_loop of the thread of slot w: the test of the while loop.
RstLoopTest(w) ==
    /\ up = "unit" /\ tr[w].pc = "loop"
    /\ tr' = ThreadStep(w, LoopTest(ThreadView(w)))
    /\ UNCHANGED <<disk, client, up, backend, is_recording, current_meeting,
                   transcriber, recorder, ctl, current_meeting_id, rec, feeds,
                   observed, mig>>
    /\ UNCHANGED <<insights, archiver, audio, legacy>>

\* _worker_loop of the thread of slot w: audio_queue.get(timeout=0.2).
RstGet(w) ==
    /\ up = "unit" /\ tr[w].pc = "get"
    /\ tr' = ThreadStep(w, QueueGet(ThreadView(w)))
    /\ UNCHANGED <<disk, client, up, backend, is_recording, current_meeting,
                   transcriber, recorder, ctl, current_meeting_id, rec, feeds,
                   observed, mig>>
    /\ UNCHANGED <<insights, archiver, audio, legacy>>

\* _process_audio of the thread of slot w: model.transcribe returns or
\* raises.
RstTranscribe(w) ==
    /\ up = "unit" /\ tr[w].pc = "transcribe"
    /\ \/ \E segments \in EngineOutputs :
             tr' = ThreadStep(w, TranscribeReturns(ThreadView(w), segments))
       \/ tr' = ThreadStep(w, TranscribeRaises(ThreadView(w)))
    /\ UNCHANGED <<disk, client, up, backend, is_recording, current_meeting,
                   transcriber, recorder, ctl, current_meeting_id, rec, feeds,
                   observed, mig>>
    /\ UNCHANGED <<insights, archiver, audio, legacy>>

\* _process_audio of the thread of slot w: the loop over the segments.
RstSegment(w) ==
    /\ up = "unit" /\ tr[w].pc = "segment"
    /\ tr' = ThreadStep(w, CollectSegment(ThreadView(w)))
    /\ UNCHANGED <<disk, client, up, backend, is_recording, current_meeting,
                   transcriber, recorder, ctl, current_meeting_id, rec, feeds,
                   observed, mig>>
    /\ UNCHANGED <<insights, archiver, audio, legacy>>

\* _process_audio of the thread of slot w: self.on_chunk_transcribed(text).
RstEmit(w) ==
    /\ up = "unit" /\ tr[w].pc = "add_chunk"
    /\ tr' = ThreadStep(w, ReturnToLoop(ThreadView(w)))
    /\ UNCHANGED <<disk, client, up, backend, is_recording, current_meeting,
                   transcriber, recorder, ctl, current_meeting_id, rec, feeds,
                   observed, mig>>
    /\ UNCHANGED <<insights, archiver, audio, legacy>>

NextRestart ==
    \/ RstStart
    \/ RstFeed
    \/ TrStop
    \/ TrStopJoin
    \/ \E w \in Ids : RstLoopTest(w)
    \/ \E w \in Ids : RstGet(w)
    \/ \E w \in Ids : RstTranscribe(w)
    \/ \E w \in Ids : RstSegment(w)
    \/ \E w \in Ids : RstEmit(w)

\* The store does not matter here: it is a new one, with no legacy files.
InitRestart == InitOf({0}, {<<>>}, {<<>>})

SpecRestart == InitRestart /\ [][NextRestart]_vars

----------------------------------------------------------------------------
(* Properties of SpecRestart *)

\* The threads of the object that are running _worker_loop.
AliveThreads == {w \in Ids : WorkerAlive(tr[w])}

\* C37: at any time at most one thread runs the worker loop of the
\* transcriber, whatever start() and stop() calls were made and whether or
\* not a stop() gave up waiting; and a start() on a running transcriber
\* starts no thread and changes no field.
C37_AtMostOneWorkerLoop ==
    /\ [](Cardinality(AliveThreads) <= 1)
    /\ [][(RstStart /\ tr[1].is_running) => UNCHANGED tr]_vars

----------------------------------------------------------------------------
(* SpecShutdown: one MeetingTranscriber started once, with a capture thread
   that never stops calling feed_audio, before, during and after stop(). *)

\* feed_audio(audio_chunk), called by the capture thread at any time and any
\* number of times.
ShutdownFeed ==
    /\ up = "unit"
    /\ \E audio_chunk \in BufLens :
          tr' = [tr EXCEPT ![1].audio_queue = FeedAudio(tr[1], audio_chunk)]
    /\ UNCHANGED <<disk, client, up, backend, is_recording, current_meeting,
                   transcriber, recorder, ctl, current_meeting_id, rec, feeds,
                   observed, mig>>
    /\ UNCHANGED <<insights, archiver, audio, legacy>>

\* One step of the worker thread, wherever it is in _worker_loop or
\* _process_audio.
ShutdownWorker ==
    \/ RstLoopTest(1)
    \/ RstGet(1)
    \/ RstTranscribe(1)
    \/ RstSegment(1)
    \/ RstEmit(1)

NextShutdown ==
    \/ TrStart
    \/ ShutdownFeed
    \/ TrStop
    \/ TrStopJoin
    \/ ShutdownWorker

\* The worker thread is scheduled again and again and model.transcribe and
\* the callback return (a step of the thread is enabled as long as it is
\* alive); join(timeout=10.0) returns after ten seconds at the latest.
\* Nothing is assumed about the capture thread and the caller of stop().
SpecShutdown ==
    /\ InitRestart /\ [][NextShutdown]_vars
    /\ WF_vars(ShutdownWorker)
    /\ WF_vars(TrStopJoin)

----------------------------------------------------------------------------
(* Properties of SpecShutdown *)

\* C38: once stop() has set the stop flag the worker thread leaves its loop,
\* however many buffers feed_audio is called with during and after the
\* shutdown, and at the moment it leaves the loop the queue is empty.
C38_WorkerExitsAfterStop ==
    /\ tr[1].stop_requested ~> (tr[1].pc = "done")
    /\ [][(tr[1].pc # "done" /\ tr'[1].pc = "done")
             => tr[1].stop_requested /\ tr[1].audio_queue = <<>>]_vars

\* The worker has left its loop after stop() had given up waiting for it:
\* it went on draining the queue after stop() returned.
C38_ExitedAfterStopReturned ==
    /\ tr[1].pc = "done" /\ tr[1].audio_queue = <<>>
    /\ tr[1].stop_requested /\ tr[1].timed_out /\ ~tr[1].is_running
    /\ ctl.call = "stop" /\ ctl.pc = "idle"

----------------------------------------------------------------------------
(* SpecRef: the DatabaseManager API on a new store, called by one client
   thread: meetings are created, ended and deleted, chunks and insights are
   added (for ids with and without a meetings row), the process dies and
   the store is opened again, and the meetings left in_progress are marked
   interrupted *)

\* MeetingStorage._check_interrupted_meetings on the open store:
\* get_in_progress_meetings, then mark_meeting_interrupted for each.
DbRecover ==
    /\ up = "db" /\ txn.stage = "none"
    /\ GetInProgressMeetings(meetings) # {}
    /\ meetings' = CheckInterruptedMeetings(meetings)
    /\ UNCHANGED <<schema, meeting_chunks, chunk_rowid, next_uuid,
                   meetings_file, client, up, process, feeds, observed, mig>>
    /\ UNCHANGED <<insights, archiver, audio, legacy>>

NextRef ==
    \/ DbOpen
    \/ Crash
    \/ DbCreateMeeting
    \/ DbAddChunkInsertOf({0}, {<<"a">>})
    \/ DbAddChunkUpdate
    \/ DbAddChunkCommit
    \/ DbEndMeeting
    \/ DbSaveInsightOf({<<"summary", NULL>>}, {"x"})
    \/ DbDeleteMeeting
    \/ DbRecover

SpecRef == InitIns /\ [][NextRef]_vars

----------------------------------------------------------------------------
(* Properties of SpecRef *)

\* Every row of the table names a meeting that has a meetings row.
NoOrphan(rows) ==
    \A i \in DOMAIN rows : meetings[rows[i].meeting_id].status # "none"

\* C39: in every state of the store each meeting_chunks row and each
\* meeting_insights row names an existing meetings row. A call of
\* add_meeting_chunk either inserts a row for a meeting that exists or
\* leaves the store as it was; a call of save_insight for an id without a
\* meetings row raises and leaves the store as it was.
C39_NoOrphanRows ==
    /\ [](NoOrphan(meeting_chunks) /\ NoOrphan(meeting_insights))
    /\ [][api_chunks' # api_chunks
            => IF txn'.stage = "inserted"
               THEN LET row == txn'.meeting_chunks[Len(txn'.meeting_chunks)]
                    IN  meetings[row.meeting_id].status # "none"
               ELSE UNCHANGED <<disk, txn, meeting_insights,
                                insight_rowid>>]_vars
    /\ [][Len(insight_saves') > Len(insight_saves)
            => LET call == insight_saves'[Len(insight_saves')]
               IN  IF meetings[call.meeting_id].status = "none"
                   THEN /\ call.insight_id = 0
                        /\ UNCHANGED <<disk, txn, meeting_insights,
                                       insight_rowid>>
                   ELSE call.insight_id # 0]_vars

\* save_insight has raised for an id without a meetings row while the store
\* holds a chunk and an insight of a meeting that recovery has marked
\* interrupted, and another meeting has been deleted.
C39_RefusedNextToStoredRows ==
    /\ up = "db"
    /\ \E i \in DOMAIN insight_saves : insight_saves[i].insight_id = 0
    /\ \E m \in Ids :
          /\ meetings[m].status = "interrupted"
          /\ RowsOf(meeting_chunks, m) # <<>>
          /\ RowsOf(meeting_insights, m) # <<>>
    /\ \E m \in Ids : m < next_uuid /\ meetings[m].status = "none"

====
